---------------------------- MODULE Spec2Model ----------------------------
(***************************************************************************)
(* A model of the archive ingestion engine of email-archive-parser:        *)
(* MBOXParser.parse / MBOXParser.parseStreaming (src/src/parsers/mbox.ts), *)
(* OLMParser.parse and parseArchive (src/src/parsers/olm.ts).              *)
(*                                                                         *)
(* Text is a sequence of symbols.  A symbol is a string that stands for a  *)
(* fixed run of bytes of the archive ("From " for the five bytes that open *)
(* a separator line, "Mon" for a day-of-week token, "\n" and "\r" for the  *)
(* line-ending bytes, and so on).  Offsets and sizes count symbols, and a  *)
(* chunk boundary may fall between any two symbols.  Indices are 0-based   *)
(* as in the source; Substring and CharAt convert.                         *)
(***************************************************************************)
EXTENDS Integers, Sequences, FiniteSets, TLC

(***************************************************************************)
(* Bounds of the model.                                                    *)
(***************************************************************************)
MaxLines == 4
MaxStreamLines == 3
MaxChunk == 4
MaxBatch == 2
MaxEntries == 3
MaxLabels == 3
MaxSubject == 4
MaxHeaderLines == 4
MaxParts == 2
MaxNested == 2

(***************************************************************************)
(* Symbols.                                                                *)
(***************************************************************************)
NL == "\n"
CR == "\r"
FROM_ == "From "
DayTokens == {"Mon", "Tue", "Wed", "Thu", "Fri", "Sat", "Sun"}
Whitespace == {" ", "\t", NL, CR}
NoSubject == "(No Subject)"
SizeCap == 100000

Min(a, b) == IF a < b THEN a ELSE b

\* String.prototype.toLowerCase on the names of the model.
ToLowerCase(str) ==
    CASE str = "Netflix" -> "netflix"
      [] str = "Acme" -> "acme"
      [] OTHER -> str

\* The index of the entry of a Map (a sequence in insertion order) under a
\* key, 0 if there is none.
MapIndex(map, key) ==
    IF \E i \in 1..Len(map) : map[i].key = key
    THEN CHOOSE i \in 1..Len(map) : map[i].key = key
    ELSE 0

\* String.prototype.substring(a, b) and charAt on 0-based offsets.
Substring(t, a, b) == SubSeq(t, a + 1, b)

CharAt(t, i) == t[i + 1]

\* text.startsWith(pat, at)
StartsWithAt(t, pat, at) ==
    /\ at >= 0
    /\ at + Len(pat) <= Len(t)
    /\ \A k \in 1..Len(pat) : t[at + k] = pat[k]

\* text.indexOf(sym, from): the first offset >= from holding sym, or -1.
IndexOf(t, sym, from) ==
    LET hits == {i \in from..(Len(t) - 1) : CharAt(t, i) = sym}
    IN  IF hits = {} THEN -1 ELSE CHOOSE i \in hits : \A j \in hits : i <= j

\* text.lastIndexOf(pat, from): the last offset <= from where pat starts, or -1.
LastIndexOf(t, pat, from) ==
    LET hits == {i \in 0..Min(from, Len(t) - Len(pat)) : StartsWithAt(t, pat, i)}
    IN  IF hits = {} THEN -1 ELSE CHOOSE i \in hits : \A j \in hits : i >= j

\* text.replace(/\r\n/g, '\n')
RECURSIVE ReplaceCRLF(_)
ReplaceCRLF(t) ==
    IF t = <<>> THEN <<>>
    ELSE IF Len(t) >= 2 /\ t[1] = CR /\ t[2] = NL
         THEN <<NL>> \o ReplaceCRLF(SubSeq(t, 3, Len(t)))
         ELSE <<Head(t)>> \o ReplaceCRLF(Tail(t))

\* text.replace(/\r/g, '\n')
ReplaceCR(t) == [i \in 1..Len(t) |-> IF t[i] = CR THEN NL ELSE t[i]]

NormalizeLineEndings(t) == ReplaceCR(ReplaceCRLF(t))

\* text.split('\n'): the lines between the separators; '' gives [''].
RECURSIVE SplitLines(_)
SplitLines(t) ==
    LET i == IndexOf(t, NL, 0)
    IN  IF i = -1 THEN <<t>>
        ELSE <<Substring(t, 0, i)>> \o SplitLines(Substring(t, i + 1, Len(t)))

\* lines.join('\n')
RECURSIVE JoinLines(_)
JoinLines(ls) ==
    IF ls = <<>> THEN <<>>
    ELSE IF Len(ls) = 1 THEN ls[1]
    ELSE ls[1] \o <<NL>> \o JoinLines(Tail(ls))

\* line.trim() === ''
IsBlank(line) == \A i \in 1..Len(line) : line[i] \in Whitespace

(***************************************************************************)
(* MBOXParser.isFromLine: the line starts with "From " and holds a         *)
(* day-of-week token anywhere.                                             *)
(***************************************************************************)
isFromLine(line) ==
    /\ Len(line) >= 1
    /\ line[1] = FROM_
    /\ \E i \in 1..Len(line) : line[i] \in DayTokens


(***************************************************************************)
(* MBOXParser.findLastFromLine: the offset of the last valid separator     *)
(* line, found by a reverse scan for "\nFrom ", or -1.                     *)
(***************************************************************************)
LineAt(text, lineStart) ==
    LET e == IndexOf(text, NL, lineStart)
        lineEnd == IF e = -1 THEN Len(text) ELSE e
    IN  Substring(text, lineStart, lineEnd)

RECURSIVE FindFromLoop(_, _)
FindFromLoop(text, searchStart) ==
    IF searchStart <= 0 THEN -1
    ELSE LET idx == LastIndexOf(text, <<NL, FROM_>>, searchStart)
         IN  IF idx = -1 THEN -1
             ELSE IF isFromLine(LineAt(text, idx + 1)) THEN idx + 1
             ELSE FindFromLoop(text, idx - 1)

\* The values searchStart takes at the head of the reverse scan's loop body.
RECURSIVE FindFromScan(_, _)
FindFromScan(text, searchStart) ==
    IF searchStart <= 0 THEN <<>>
    ELSE LET idx == LastIndexOf(text, <<NL, FROM_>>, searchStart)
         IN  IF idx = -1 \/ isFromLine(LineAt(text, idx + 1)) THEN <<searchStart>>
             ELSE <<searchStart>> \o FindFromScan(text, idx - 1)

findLastFromLine(text) ==
    LET lastIndex == FindFromLoop(text, Len(text) - 1)
    IN  IF lastIndex = -1 /\ StartsWithAt(text, <<FROM_>>, 0)
        THEN IF isFromLine(LineAt(text, 0)) THEN 0 ELSE -1
        ELSE lastIndex

(***************************************************************************)
(* The grouping loop shared by MBOXParser.parse and parseEmailsFromText:   *)
(* a valid separator line closes the current group when that group is not  *)
(* empty; the last group is kept when one of its lines is not blank.  The  *)
(* result is the sequence of line groups handed to parseEmailFromLines.    *)
(***************************************************************************)
RECURSIVE GroupLoop(_, _, _, _)
GroupLoop(lines, i, currentEmail, out) ==
    IF i > Len(lines) THEN [currentEmail |-> currentEmail, out |-> out]
    ELSE IF isFromLine(lines[i]) /\ currentEmail # <<>>
         THEN GroupLoop(lines, i + 1, <<lines[i]>>, Append(out, currentEmail))
         ELSE GroupLoop(lines, i + 1, Append(currentEmail, lines[i]), out)

MessageBlocks(lines) ==
    LET r == GroupLoop(lines, 1, <<>>, <<>>)
    IN  IF r.currentEmail # <<>>
           /\ \E k \in 1..Len(r.currentEmail) : ~IsBlank(r.currentEmail[k])
        THEN Append(r.out, r.currentEmail)
        ELSE r.out

(***************************************************************************)
(* Header values and addresses.  A header line is a header-name symbol     *)
(* followed by the symbols of its value.                                   *)
(***************************************************************************)
HeaderNames == {"From:", "Subject:", "SUBJECT:", "X-Gmail-Labels:"}

\* match[1].toLowerCase()
HeaderKey(sym) ==
    CASE sym = "From:" -> "from"
      [] sym = "X-Gmail-Labels:" -> "x-gmail-labels"
      [] OTHER -> "subject"

\* A symbol on which a step of parseEmailFromLines throws.
Unparseable == "<unparseable>"

RECURSIVE TrimLeft(_)
TrimLeft(line) ==
    IF line # <<>> /\ Head(line) \in Whitespace THEN TrimLeft(Tail(line)) ELSE line

RECURSIVE TrimRight(_)
TrimRight(line) ==
    IF line # <<>> /\ line[Len(line)] \in Whitespace
    THEN TrimRight(SubSeq(line, 1, Len(line) - 1))
    ELSE line

Trim(line) == TrimRight(TrimLeft(line))

\* headers[key] = value: a known key keeps its place, a new key goes last.
SetHeader(hs, key, value) ==
    IF \E i \in 1..Len(hs) : hs[i].key = key
    THEN [i \in 1..Len(hs) |-> IF hs[i].key = key THEN [key |-> key, value |-> value]
                                ELSE hs[i]]
    ELSE Append(hs, [key |-> key, value |-> value])

\* headers[key] || ''
GetHeader(hs, key) ==
    IF \E i \in 1..Len(hs) : hs[i].key = key
    THEN (CHOOSE h \in {hs[i] : i \in 1..Len(hs)} : h.key = key).value
    ELSE <<>>

\* One pass of the header loop over lines[i..]: stops at the first blank line.
RECURSIVE HeaderLoop(_, _, _)
HeaderLoop(lines, i, hs) ==
    IF i > Len(lines) THEN [headers |-> hs, bodyStartIndex |-> Len(lines)]
    ELSE IF IsBlank(lines[i]) THEN [headers |-> hs, bodyStartIndex |-> i]
    ELSE LET line == lines[i]
         IN  IF Head(line) \in Whitespace /\ hs # <<>>
             THEN HeaderLoop(lines, i + 1,
                     [hs EXCEPT ![Len(hs)].value = @ \o <<" ">> \o Trim(line)])
             ELSE IF Head(line) \in HeaderNames
             THEN HeaderLoop(lines, i + 1,
                     SetHeader(hs, HeaderKey(Head(line)), TrimLeft(Tail(line))))
             ELSE HeaderLoop(lines, i + 1, hs)

\* The texts of the model that contain '@'.
HasAt(s) == s \in {"Ann <Ann@X.com>", "Ann@X.com", "ann@x.com"}

\* MBOXParser.parseEmailAddress(str).email: the text between angle brackets,
\* a bare address, or else the raw text.
parseEmailAddress(s) ==
    CASE s = "Ann <Ann@X.com>" -> "Ann@X.com"
      [] OTHER -> s

\* utils.cleanEmailAddress: '' stays '', angle brackets go, the first
\* address-shaped run is kept if there is one, and the text is lowercased.
cleanEmailAddress(s) ==
    CASE s = "" -> ""
      [] s = "Ann <Ann@X.com>" -> "ann@x.com"
      [] s = "Ann@X.com" -> "ann@x.com"
      [] s = "Ann" -> "ann"
      [] s = "Bob@X.com" -> "bob@x.com"
      [] OTHER -> s

\* The text of a header value: '' for a missing or empty value, else the
\* text of its first symbol.
ValueText(v) == IF v = <<>> THEN "" ELSE v[1]

\* utils.decodeHeaderValue: RFC 2047 encoded words are decoded, other text
\* is returned as is.
decodeHeaderValue(s) ==
    CASE s = "=?UTF-8?B?SGk=?=" -> "Hi"
      [] OTHER -> s

\* body.trim() on the body lines: blank lines at both ends go.
RECURSIVE TrimBlankLines(_)
TrimBlankLines(ls) ==
    IF ls = <<>> THEN <<>>
    ELSE IF IsBlank(ls[1]) THEN TrimBlankLines(Tail(ls))
    ELSE IF IsBlank(ls[Len(ls)]) THEN TrimBlankLines(SubSeq(ls, 1, Len(ls) - 1))
    ELSE ls

(***************************************************************************)
(* Gmail labels.  The value of X-Gmail-Labels is a sequence of symbols: a  *)
(* comma, a double quote, a blank, or a run of other characters.  A label  *)
(* and a folder id are sequences of symbols as well.                       *)
(***************************************************************************)
COMMA == ","
QUOTE == "\""

\* String.prototype.toLowerCase on the symbols of a labels header.
LowerSym(sym) ==
    CASE sym = "Inbox" -> "inbox"
      [] sym = "Sent Mail" -> "sent mail"
      [] sym = "Draft" -> "draft"
      [] sym = "Spam" -> "spam"
      [] sym = "Trash" -> "trash"
      [] sym = "Unread" -> "unread"
      [] sym = "Starred" -> "starred"
      [] sym = "Opened!" -> "opened!"
      [] sym = "Category Promotions" -> "category promotions"
      [] sym = "Work Stuff" -> "work stuff"
      [] sym = "Unread Later" -> "unread later"
      [] sym = "Starred Recipes" -> "starred recipes"
      [] sym = "Work" -> "work"
      [] sym = "Play" -> "play"
      [] OTHER -> sym

LowerText(t) == [i \in 1..Len(t) |-> LowerSym(t[i])]

\* sym.includes(word) for a lower-cased symbol and the words 'unread' and
\* 'starred'.
SymIncludes(sym, word) ==
    \/ word = "unread" /\ sym \in {"unread", "unread later"}
    \/ word = "starred" /\ sym \in {"starred", "starred recipes"}

\* text.toLowerCase().includes(word)
TextIncludes(t, word) == \E i \in 1..Len(t) : SymIncludes(LowerSym(t[i]), word)

\* MBOXParser.parseGmailLabels: the loop over the characters of the header.
RECURSIVE LabelLoop(_, _, _, _, _)
LabelLoop(h, i, labels, current, inQuotes) ==
    IF i > Len(h)
    THEN IF Trim(current) # <<>> THEN Append(labels, LowerText(Trim(current))) ELSE labels
    ELSE IF h[i] = QUOTE THEN LabelLoop(h, i + 1, labels, current, ~inQuotes)
    ELSE IF h[i] = COMMA /\ ~inQuotes
         THEN LabelLoop(h, i + 1,
                 IF Trim(current) # <<>> THEN Append(labels, LowerText(Trim(current)))
                 ELSE labels,
                 <<>>, inQuotes)
    ELSE LabelLoop(h, i + 1, labels, Append(current, h[i]), inQuotes)

parseGmailLabels(labelsHeader) == LabelLoop(labelsHeader, 1, <<>>, <<>>, FALSE)

\* labelList.includes(label)
Includes(list, label) == \E i \in 1..Len(list) : list[i] = label

\* label.startsWith('category ')
IsCategory(label) == label # <<>> /\ Head(label) \in {"category promotions"}

SystemLabels == {<<"opened">>, <<"unread">>, <<"starred">>, <<"important">>, <<"all mail">>}

FolderLabels == {<<"inbox">>, <<"sent">>, <<"sent mail">>, <<"draft">>, <<"drafts">>,
                 <<"spam">>, <<"trash">>}

\* One symbol of a label under .replace(/[^a-z0-9\s-]/g, '') and
\* .replace(/\s+/g, '-'); '' stands for a symbol of which nothing is left.
FolderIdSym(sym) ==
    CASE sym = COMMA -> ""
      [] sym = "opened!" -> "opened"
      [] sym = " " -> "-"
      [] sym = "sent mail" -> "sent-mail"
      [] sym = "work stuff" -> "work-stuff"
      [] sym = "unread later" -> "unread-later"
      [] sym = "starred recipes" -> "starred-recipes"
      [] sym = "category promotions" -> "category-promotions"
      [] OTHER -> sym

\* MBOXParser.labelToFolderId; no label of the model exceeds the 50
\* characters of substring(0, 50).
labelToFolderId(label) ==
    SelectSeq([i \in 1..Len(label) |-> FolderIdSym(LowerSym(label[i]))],
              LAMBDA sym : sym # "")

\* A variant of mapGmailLabelsToFolder that goes by the first label.
mapGmailLabelsToFolder_FirstLabel(labels) ==
    LET labelList == parseGmailLabels(labels)
    IN  IF labelList = <<>> THEN <<"archive">>
        ELSE IF labelList[1] \in {<<"sent mail">>} THEN <<"sent">>
        ELSE IF labelList[1] \in {<<"draft">>} THEN <<"drafts">>
        ELSE IF labelList[1] \in SystemLabels \/ IsCategory(labelList[1])
             THEN <<"archive">>
        ELSE labelToFolderId(labelList[1])

\* MBOXParser.mapGmailLabelsToFolder.
mapGmailLabelsToFolder(labels) ==
    LET labelList == parseGmailLabels(labels)
        customLabels == SelectSeq(labelList,
                           LAMBDA l : ~IsCategory(l) /\ l \notin SystemLabels)
    IN  IF Includes(labelList, <<"inbox">>) THEN <<"inbox">>
        ELSE IF Includes(labelList, <<"sent">>) \/ Includes(labelList, <<"sent mail">>)
             THEN <<"sent">>
        ELSE IF Includes(labelList, <<"draft">>) \/ Includes(labelList, <<"drafts">>)
             THEN <<"drafts">>
        ELSE IF Includes(labelList, <<"spam">>) THEN <<"spam">>
        ELSE IF Includes(labelList, <<"trash">>) THEN <<"trash">>
        ELSE IF Len(customLabels) > 0 THEN labelToFolderId(customLabels[1])
        ELSE <<"archive">>

\* folderIds.add(id) on a Set kept in insertion order.
SetAdd(ids, id) == IF Includes(ids, id) THEN ids ELSE Append(ids, id)

RECURSIVE CustomIdsLoop(_, _, _)
CustomIdsLoop(labels, i, folderIds) ==
    IF i > Len(labels) THEN folderIds
    ELSE IF ~IsCategory(labels[i]) /\ labels[i] \notin SystemLabels \cup FolderLabels
         THEN CustomIdsLoop(labels, i + 1, SetAdd(folderIds, labelToFolderId(labels[i])))
         ELSE CustomIdsLoop(labels, i + 1, folderIds)

\* MBOXParser.getAllFolderIdsFromLabels.
getAllFolderIdsFromLabels(labelsHeader) ==
    LET labels == parseGmailLabels(labelsHeader)
        a == IF Includes(labels, <<"inbox">>) THEN <<<<"inbox">>>> ELSE <<>>
        b == IF Includes(labels, <<"sent">>) \/ Includes(labels, <<"sent mail">>)
             THEN SetAdd(a, <<"sent">>) ELSE a
        c == IF Includes(labels, <<"draft">>) \/ Includes(labels, <<"drafts">>)
             THEN SetAdd(b, <<"drafts">>) ELSE b
        d == IF Includes(labels, <<"spam">>) THEN SetAdd(c, <<"spam">>) ELSE c
        e == IF Includes(labels, <<"trash">>) THEN SetAdd(d, <<"trash">>) ELSE d
    IN  CustomIdsLoop(labels, 1, e)

(***************************************************************************)
(* utils.normalizeSubject.  A subject is a sequence of symbols: a reply or *)
(* forward prefix with its colon, a whitespace character, or a word.       *)
(***************************************************************************)
\* String.prototype.toLowerCase on the symbols of a subject.
LowerSubjectSym(sym) ==
    CASE sym = "Re:" -> "re:"
      [] sym = "FWD:" -> "fwd:"
      [] sym = "AW:" -> "aw:"
      [] sym = "Hello" -> "hello"
      [] OTHER -> sym

\* /^(re|fwd|fw|aw|sv|vs|antw|r):\s*/i matches at the start of the text.
prefixPatternTest(t) ==
    /\ t # <<>>
    /\ LowerSubjectSym(Head(t)) \in {"re:", "fwd:", "fw:", "aw:", "sv:", "vs:", "antw:", "r:"}

\* normalized.replace(prefixPattern, ''): the prefix and the whitespace after it go.
StripPrefix(t) == TrimLeft(Tail(t))

\* while (prefixPattern.test(normalized)) normalized = normalized.replace(...)
RECURSIVE StripPrefixes(_)
StripPrefixes(t) == IF prefixPatternTest(t) THEN StripPrefixes(StripPrefix(t)) ELSE t

\* .replace(/\s+/g, ' ')
RECURSIVE CollapseWhitespace(_)
CollapseWhitespace(t) ==
    IF t = <<>> THEN <<>>
    ELSE IF Head(t) \in Whitespace
         THEN <<" ">> \o CollapseWhitespace(TrimLeft(t))
         ELSE <<Head(t)>> \o CollapseWhitespace(Tail(t))

normalizeSubject(subject) ==
    IF subject = <<>> THEN <<>>
    ELSE LET normalized == StripPrefixes(subject)
         IN  CollapseWhitespace(
                [i \in 1..Len(Trim(normalized)) |-> LowerSubjectSym(Trim(normalized)[i])])

(***************************************************************************)
(* MBOXParser.parseMimeParts.  A multipart body is a text of symbols: a    *)
(* boundary marker ("--" + boundary), "--" after the closing marker, "\n", *)
(* a Content-Type header of a part, and the words of a part's content.     *)
(* No two boundaries of a message are a prefix of one another.             *)
(***************************************************************************)
Undefined == <<"<undefined>">>

\* A value that an if or || of JavaScript takes as true.
Truthy(v) == v # Undefined /\ v # <<>>

TextPlainHeader == "Content-Type: text/plain"
TextHtmlHeader == "Content-Type: text/html"
NestedHeader == "Content-Type: multipart/alternative; boundary=b2"

\* '--' + boundary
BoundaryMarker(boundary) == IF boundary = "b1" THEN "--b1" ELSE "--b2"

\* partHeaders.match(/content-type:\s*([^;\n]+)/i): the first such header, or "".
ContentTypeMatch(partHeaders) ==
    LET hits == {i \in 1..Len(partHeaders) :
                    partHeaders[i] \in {TextPlainHeader, TextHtmlHeader, NestedHeader}}
    IN  IF hits = {} THEN ""
        ELSE partHeaders[CHOOSE i \in hits : \A j \in hits : i <= j]

\* part.indexOf('\n\n')
HeaderEndIndex(part) ==
    LET hits == {i \in 0..(Len(part) - 2) : StartsWithAt(part, <<NL, NL>>, i)}
    IN  IF hits = {} THEN -1 ELSE CHOOSE i \in hits : \A j \in hits : i <= j

\* body.split(boundaryMarker)
RECURSIVE SplitOn(_, _)
SplitOn(t, marker) ==
    LET i == IndexOf(t, marker, 0)
    IN  IF i = -1 THEN <<t>>
        ELSE <<Substring(t, 0, i)>> \o SplitOn(Substring(t, i + 1, Len(t)), marker)

\* A variant of the store in which a later part replaces an earlier one.
StorePart_LastWins(result, partContentType, partContent) ==
    IF partContentType = TextPlainHeader
    THEN [result EXCEPT !.text = partContent]
    ELSE IF partContentType = TextHtmlHeader
    THEN [result EXCEPT !.html = partContent]
    ELSE result

\* "Store based on content type": a field is written while it is not truthy.
StorePart(result, partContentType, partContent) ==
    IF partContentType = TextPlainHeader /\ ~Truthy(result.text)
    THEN [result EXCEPT !.text = partContent]
    ELSE IF partContentType = TextHtmlHeader /\ ~Truthy(result.html)
    THEN [result EXCEPT !.html = partContent]
    ELSE result

\* "Handle nested multipart": the nested result fills what is not truthy yet.
MergeNested(result, nestedResult) ==
    [text |-> IF Truthy(nestedResult.text) /\ ~Truthy(result.text)
              THEN nestedResult.text ELSE result.text,
     html |-> IF Truthy(nestedResult.html) /\ ~Truthy(result.html)
              THEN nestedResult.html ELSE result.html]

RECURSIVE parseMimeParts(_, _)
RECURSIVE MimePartsLoop(_, _, _)
\* for (const part of parts)
MimePartsLoop(parts, i, result) ==
    IF i > Len(parts) THEN result
    ELSE LET part == parts[i]
             headerEndIndex == HeaderEndIndex(part)
             partHeaders == Substring(part, 0, headerEndIndex)
             partContent == Substring(part, headerEndIndex + 2, Len(part))
             partContentType == ContentTypeMatch(partHeaders)
         IN  IF IsBlank(part) \/ Trim(part) = <<"--">> THEN MimePartsLoop(parts, i + 1, result)
             ELSE IF headerEndIndex = -1 THEN MimePartsLoop(parts, i + 1, result)
             ELSE IF partContentType = "" THEN MimePartsLoop(parts, i + 1, result)
             ELSE IF partContentType = NestedHeader
             THEN MimePartsLoop(parts, i + 1,
                     MergeNested(result, parseMimeParts(partContent, "b2")))
             ELSE MimePartsLoop(parts, i + 1,
                     StorePart(result, partContentType, Trim(partContent)))

parseMimeParts(body, boundary) ==
    MimePartsLoop(SplitOn(body, BoundaryMarker(boundary)), 1,
                  [text |-> Undefined, html |-> Undefined])

(***************************************************************************)
(* MBOXParser.parseEmailFromLines: <<record>> for one group of lines, or   *)
(* <<>> where the source returns null.  lines[1] (the separator line) is   *)
(* skipped; an exception inside is caught and gives null.                  *)
(***************************************************************************)
ThrowsInside(lines) ==
    \E i \in 1..Len(lines) : \E k \in 1..Len(lines[i]) : lines[i][k] = Unparseable

\* A variant of parseEmailFromLines that returns null for a sender without '@'.
parseEmailFromLines_RequiresAt(lines) ==
    IF ThrowsInside(lines) THEN <<>>
    ELSE IF Len(lines) < 2 THEN <<>>
    ELSE LET h == HeaderLoop(lines, 2, <<>>)
             bodyLines == SubSeq(lines, h.bodyStartIndex + 1, Len(lines))
             from == ValueText(GetHeader(h.headers, "from"))
             sender == parseEmailAddress(from)
             subj == ValueText(GetHeader(h.headers, "subject"))
             subject == decodeHeaderValue(IF subj = "" THEN NoSubject ELSE subj)
             gmailLabels == GetHeader(h.headers, "x-gmail-labels")
         IN  IF ~HasAt(sender) THEN <<>>
             ELSE << [subject |-> subject,
                      sender |-> cleanEmailAddress(sender),
                      body |-> TrimBlankLines(bodyLines),
                      size |-> Min(Len(JoinLines(lines)), SizeCap),
                      isRead |-> ~TextIncludes(gmailLabels, "unread"),
                      isStarred |-> TextIncludes(gmailLabels, "starred"),
                      folderId |-> mapGmailLabelsToFolder(gmailLabels)] >>

parseEmailFromLines(lines) ==
    IF ThrowsInside(lines) THEN <<>>
    ELSE IF Len(lines) < 2 THEN <<>>
    ELSE LET h == HeaderLoop(lines, 2, <<>>)
             bodyLines == SubSeq(lines, h.bodyStartIndex + 1, Len(lines))
             from == ValueText(GetHeader(h.headers, "from"))
             sender == parseEmailAddress(from)
             subj == ValueText(GetHeader(h.headers, "subject"))
             subject == decodeHeaderValue(IF subj = "" THEN NoSubject ELSE subj)
             gmailLabels == GetHeader(h.headers, "x-gmail-labels")
         IN  IF sender = "" /\ subject = "" THEN <<>>
             ELSE << [subject |-> subject,
                      sender |-> cleanEmailAddress(sender),
                      body |-> TrimBlankLines(bodyLines),
                      size |-> Min(Len(JoinLines(lines)), SizeCap),
                      isRead |-> ~TextIncludes(gmailLabels, "unread"),
                      isStarred |-> TextIncludes(gmailLabels, "starred"),
                      folderId |-> mapGmailLabelsToFolder(gmailLabels)] >>

\* The records of a sequence of line groups, the null ones dropped.
RECURSIVE EmailsOfBlocks(_)
EmailsOfBlocks(bs) ==
    IF bs = <<>> THEN <<>>
    ELSE parseEmailFromLines(bs[1]) \o EmailsOfBlocks(Tail(bs))

BlocksOfText(text) == MessageBlocks(SplitLines(NormalizeLineEndings(text)))

(***************************************************************************)
(* MBOXParser.parseEmailsFromText.                                         *)
(***************************************************************************)
parseEmailsFromText(text) == EmailsOfBlocks(BlocksOfText(text))


(***************************************************************************)
(* MBOXParser.parse, small-file path: the records of the whole text.       *)
(***************************************************************************)
ParseSmallEmails(text) ==
    EmailsOfBlocks(MessageBlocks(SplitLines(NormalizeLineEndings(text))))

\* The number of valid separator lines ("Count emails first").
CountFromLines(text) ==
    LET lines == SplitLines(NormalizeLineEndings(text))
    IN  Cardinality({i \in 1..Len(lines) : isFromLine(lines[i])})

(***************************************************************************)
(* The batching loop of parseStreaming over the records of one chunk.  st  *)
(* holds currentBatch, batchNumber, totalEmailsParsed and the batches      *)
(* handed to onBatch so far.                                               *)
(***************************************************************************)
RECURSIVE BatchLoop(_, _, _, _)
BatchLoop(emails, st, size, withOnBatch) ==
    IF emails = <<>> THEN st
    ELSE LET pushed == Append(st.currentBatch, Head(emails))
         IN  IF Len(pushed) >= size
             THEN BatchLoop(Tail(emails),
                     [currentBatch |-> <<>>,
                      batchNumber |-> st.batchNumber + 1,
                      totalEmailsParsed |-> st.totalEmailsParsed + Len(pushed),
                      delivered |-> IF withOnBatch
                                    THEN Append(st.delivered,
                                           [emails |-> pushed, batchNumber |-> st.batchNumber])
                                    ELSE st.delivered],
                     size, withOnBatch)
             ELSE BatchLoop(Tail(emails), [st EXCEPT !.currentBatch = pushed],
                     size, withOnBatch)

\* The split of leftover + chunk into the text parsed now and the new leftover.
SplitProcessable(textToProcess, isLastChunk) ==
    LET lastFromIndex == findLastFromLine(textToProcess)
    IN  IF lastFromIndex > 0 /\ ~isLastChunk
        THEN [processableText |-> Substring(textToProcess, 0, lastFromIndex),
              leftover |-> Substring(textToProcess, lastFromIndex, Len(textToProcess))]
        ELSE [processableText |-> textToProcess, leftover |-> <<>>]

\* A variant of the final batch that hands the batch over without counting it.
FinalBatch_NotCounted(st, withOnBatch) ==
    IF st.currentBatch # <<>> /\ withOnBatch
    THEN [st EXCEPT !.delivered = Append(@, [emails |-> st.currentBatch,
                                             batchNumber |-> st.batchNumber])]
    ELSE st

\* The final batch: handed over and counted only when onBatch is supplied.
FinalBatch(st, withOnBatch) ==
    IF st.currentBatch # <<>> /\ withOnBatch
    THEN [st EXCEPT !.delivered = Append(@, [emails |-> st.currentBatch,
                                             batchNumber |-> st.batchNumber]),
                    !.totalEmailsParsed = @ + Len(st.currentBatch)]
    ELSE st

\* The records of a sequence of delivered batches, in delivery order.
RECURSIVE FlattenBatches(_)
FlattenBatches(bs) ==
    IF bs = <<>> THEN <<>> ELSE bs[1].emails \o FlattenBatches(Tail(bs))

(***************************************************************************)
(* Inputs.                                                                 *)
(***************************************************************************)
FromValid == <<FROM_, "Mon">>
FromInvalid == <<FROM_, "text">>
HdrFrom == <<"From:", "Ann <Ann@X.com>">>
HdrFromName == <<"From:", "Ann">>
HdrSubject == <<"Subject:", "=?UTF-8?B?SGk=?=">>
BodyLine == <<"text">>

StreamLines == {FromValid, FromInvalid, HdrFrom, <<>>, BodyLine}
ParseLines == StreamLines \cup {HdrFromName, HdrSubject, <<Unparseable>>}

RECURSIVE JoinWith(_, _)
JoinWith(ls, eol) ==
    IF ls = <<>> THEN <<>>
    ELSE IF Len(ls) = 1 THEN ls[1]
    ELSE ls[1] \o eol \o JoinWith(Tail(ls), eol)

LineEndings == {<<NL>>, <<CR, NL>>}

FilesOf(lineSet, maxLines) ==
    {JoinWith(ls, eol) : ls \in UNION {[1..n -> lineSet] : n \in 0..maxLines},
                         eol \in LineEndings}

(***************************************************************************)
(* OLM archives: the message entries in the order the ZIP lists them.      *)
(***************************************************************************)
OlmKinds == {"sender", "nosender", "empty", "malformed", "unreadable"}

\* An entry is message_<n>.xml; from and date are what its XML gives for the
\* sender address and the date.
OlmArchives ==
    {es \in UNION {[1..n -> [n : 1..MaxEntries, kind : OlmKinds, from : {"Ann@X.com"},
                             date : {1}]] : n \in 0..MaxEntries} :
        \A i, j \in DOMAIN es : i # j => es[i].n # es[j].n}


(***************************************************************************)
(* OLMParser.parseEmailXML on the XML of one entry: <<record>> or <<>>     *)
(* (null).  A document without subject and body, or one the XML parser     *)
(* rejects, gives null.  The sender is taken as it stands; it may be ''.   *)
(***************************************************************************)
parseEmailXML(e) ==
    IF e.kind \in {"empty", "malformed"} THEN <<>>
    ELSE << [subject |-> "Welcome",
             sender |-> cleanEmailAddress(IF e.kind = "sender" THEN e.from ELSE ""),
             date |-> e.date,
             body |-> << <<ToString(e.n)>> >>,
             size |-> 1] >>

(***************************************************************************)
(* Progress events.  reportProgress(onProgress, stage, progress, message)  *)
(* hands {stage, progress, message} to the callback.  The progress value   *)
(* of an event is the quotient num / den: Math.round gives den = 1, and    *)
(* the unrounded 10 + (processedEmails / totalEmails) * 90 of              *)
(* MBOXParser.parse is (10 * totalEmails + 90 * processedEmails) over      *)
(* totalEmails.                                                            *)
(***************************************************************************)
ProgressEvery == 100

reportProgress(log, stage, num, den) ==
    Append(log, [stage |-> stage, num |-> num, den |-> den])

\* Math.round(num / den) for num >= 0 and den > 0.
Round(num, den) == (2 * num + den) \div (2 * den)

\* MBOXParser.parse: the events of the parse loop, one after every
\* ProgressEvery-th record parsed inside the loop.
ParseLoopEvents(processedEmails, totalEmails) ==
    LET at == {k \in 1..processedEmails : k % ProgressEvery = 0}
        nth(j) == CHOOSE k \in at : Cardinality({m \in at : m <= k}) = j
    IN  [j \in 1..Cardinality(at) |->
            [stage |-> "parsing_emails",
             num |-> 10 * totalEmails + 90 * nth(j),
             den |-> totalEmails]]

\* The number of records MBOXParser.parse has parsed inside its loop, the
\* last group of lines being parsed after the loop.
ProcessedInLoop(text) ==
    Len(EmailsOfBlocks(GroupLoop(SplitLines(NormalizeLineEndings(text)), 1, <<>>, <<>>).out))

\* MBOXParser.parse, small-file path: the events after 'extracting'.
ParseSmallEvents(text) ==
    <<[stage |-> "parsing_emails", num |-> 10, den |-> 1]>>
    \o ParseLoopEvents(ProcessedInLoop(text), CountFromLines(text))
    \o <<[stage |-> "complete", num |-> 100, den |-> 1]>>

\* A variant of the progress of a chunk that leaves out the division by the
\* file size.
StreamProgress_Unscaled(offsetNow, fileSize) == offsetNow * 95

\* parseStreaming: Math.round((offset / fileSize) * 95).
StreamProgress(offsetNow, fileSize) == Round(offsetNow * 95, fileSize)

\* parseStreaming: the 'extracting' event that precedes the chunk loop.
StreamStarted(log) ==
    IF log = <<>> THEN reportProgress(log, "extracting", 0, 1) ELSE log

(***************************************************************************)
(* OLMParser.parse: contacts.  A contact file of the archive is            *)
(* [readable, elements]; an element is [name, email] as the XML gives      *)
(* them ('' for a missing one).                                            *)
(***************************************************************************)
Now == "now"
UnknownSender == "unknown@example.com"

\* email.split('@')[0] on the addresses of the model.
LocalPart(email) ==
    CASE email = "ann@x.com" -> "ann"
      [] email = "Ann@X.com" -> "Ann"
      [] email = "bob@x.com" -> "bob"
      [] email = "Bob@X.com" -> "Bob"
      [] email = UnknownSender -> "unknown"
      [] OTHER -> email

\* OLMParser.parseContactsXML on a readable contact file.
RECURSIVE parseContactsXML(_)
parseContactsXML(elements) ==
    IF elements = <<>> THEN <<>>
    ELSE LET el == Head(elements)
             local == LocalPart(el.email)
             name == IF el.name # "" THEN el.name
                     ELSE IF local # "" THEN local ELSE "Unknown"
         IN  (IF el.email # "" \/ name # "Unknown"
              THEN << [name |-> name, email |-> cleanEmailAddress(el.email),
                       emailCount |-> 0, lastEmailDate |-> Now] >>
              ELSE <<>>)
             \o parseContactsXML(Tail(elements))

\* A variant of the tally of a sender that keeps the date of its first email.
TrackSender_FirstDate(map, email) ==
    IF email.sender = "" \/ email.sender = UnknownSender THEN map
    ELSE LET at == MapIndex(map, email.sender)
         IN  IF at # 0
             THEN [map EXCEPT ![at].emailCount = @ + 1]
             ELSE Append(map, [key |-> email.sender, name |-> LocalPart(email.sender),
                               emailCount |-> 1, lastEmailDate |-> email.date])

\* The email loop of OLMParser.parse: "Track contact from email sender".
TrackSender(map, email) ==
    IF email.sender = "" \/ email.sender = UnknownSender THEN map
    ELSE LET at == MapIndex(map, email.sender)
         IN  IF at # 0
             THEN [map EXCEPT ![at].emailCount = @ + 1,
                              ![at].lastEmailDate =
                                  IF email.date > @ THEN email.date ELSE @]
             ELSE Append(map, [key |-> email.sender, name |-> LocalPart(email.sender),
                               emailCount |-> 1, lastEmailDate |-> email.date])

\* Stage 3, the loop over the contact files: st holds result.contacts,
\* existingContactEmails and the events reported.
RECURSIVE ContactFilesLoop(_, _, _)
ContactFilesLoop(files, i, st) ==
    IF i > Len(files) THEN st
    ELSE LET found == IF files[i].readable THEN parseContactsXML(files[i].elements)
                      ELSE <<>>
             all == st.contacts \o found
         IN  ContactFilesLoop(files, i + 1,
                [contacts |-> all,
                 existing |-> st.existing \cup
                                {ToLowerCase(found[k].email) :
                                    k \in {j \in 1..Len(found) : found[j].email # ""}},
                 log |-> reportProgress(st.log, "parsing_contacts",
                                        Round(i * 50, Len(files)), 1)])

\* "Add contacts from email senders (that aren't already in Address Book)".
RECURSIVE SenderContactsLoop(_, _, _)
SenderContactsLoop(map, i, st) ==
    IF i > Len(map) THEN st
    ELSE LET isNew == ToLowerCase(map[i].key) \notin st.existing
             added == IF isNew THEN st.added + 1 ELSE st.added
         IN  SenderContactsLoop(map, i + 1,
                [contacts |-> IF isNew
                              THEN Append(st.contacts,
                                      [name |-> map[i].name,
                                       email |-> cleanEmailAddress(map[i].key),
                                       emailCount |-> map[i].emailCount,
                                       lastEmailDate |-> map[i].lastEmailDate])
                              ELSE st.contacts,
                 existing |-> st.existing,
                 added |-> added,
                 log |-> IF added % ProgressEvery = 0
                         THEN reportProgress(st.log, "parsing_contacts",
                                             50 + Round(added * 50, Len(map)), 1)
                         ELSE st.log])

\* Stages 3 and 4 of OLMParser.parse and its last event, for an archive
\* without calendar files.
ContactStages(files, map, log) ==
    LET fromFiles == ContactFilesLoop(files, 1,
                        [contacts |-> <<>>, existing |-> {},
                         log |-> IF Len(files) > 0
                                 THEN reportProgress(log, "parsing_contacts", 0, 1)
                                 ELSE log])
        fromSenders == SenderContactsLoop(map, 1,
                          [contacts |-> fromFiles.contacts,
                           existing |-> fromFiles.existing,
                           added |-> 0, log |-> fromFiles.log])
    IN  [contacts |-> fromSenders.contacts,
         log |-> reportProgress(
                    reportProgress(fromSenders.log, "parsing_contacts", 100, 1),
                    "complete", 100, 1)]

VARIABLES
    entry,              \* the operation the host called
    input,              \* [kind, ext, large, isZip]: the byte source
    file,               \* the text of an MBOX source
    entries,            \* the message entries of an OLM source
    chunkSize,          \* CHUNK_SIZE
    batchSize,          \* BATCH_SIZE
    hasOnBatch,         \* whether onBatch is supplied to parseStreaming
    pc,                 \* where the parse stands
    offset,             \* parseStreaming: offset
    leftover,           \* parseStreaming: leftover
    batch,              \* parseStreaming: currentBatch, batchNumber,
                        \*   totalEmailsParsed, and the batches onBatch received
    handed,             \* the line groups handed to parseEmailFromLines so far
    parsedText,         \* the texts handed to parseEmailsFromText so far
    olmIndex,           \* OLMParser.parse: i of the email loop
    resultEmails,       \* result.emails
    emailCount,         \* result.stats.emailCount
    retval,             \* what parseStreaming returned (-1: nothing yet)
    outcome,            \* "pending", "returned" or "thrown"
    fatal,              \* the fatal error met: "none", "read" or "zip"
    errorSeen,          \* the error the caller receives, "none" if none
    cancelRequested,    \* the host has asked for cancellation
    detector,           \* the detector operation the host called, or "none"
    detEmails,          \* its argument: the emails (one email for detect)
    detResult,          \* what it returned
    detPc,              \* "idle", "call" or "done"
    addressBook,        \* the contact files of an OLM source
    senderContactMap,   \* OLMParser.parse: senderContactMap
    contacts,           \* result.contacts
    progress,           \* the events reported to onProgress so far
    callArg,            \* the argument of a utility function the host called
    callResult,         \* what that function returned
    pendingEmails,      \* parseStreaming: the records of chunkEmails not yet pushed
    arrays,             \* the arrays parseStreaming created; currentBatch is the last
    calls,              \* the onBatch calls: [ref, emails, batchNumber, state]
    reads,              \* the byte ranges parseStreaming asked the file for
    scans               \* per chunk, the search positions of findLastFromLine

vars == <<entry, input, file, entries, chunkSize, batchSize, hasOnBatch, pc, offset,
          leftover, batch, handed, parsedText, olmIndex, resultEmails, emailCount,
          retval, outcome, fatal, errorSeen, cancelRequested,
          detector, detEmails, detResult, detPc,
          addressBook, senderContactMap, contacts, progress, callArg, callResult,
          pendingEmails, arrays, calls, reads, scans>>

detVars == <<detector, detEmails, detResult, detPc>>

olmVars == <<addressBook, senderContactMap, contacts>>

callVars == <<callArg, callResult>>

streamVars == <<pendingEmails, arrays, calls, reads, scans>>

\* No detector is called.
DetIdle ==
    /\ detector = "none"
    /\ detEmails = <<>>
    /\ detResult = <<>>
    /\ detPc = "idle"

EmptyBatch == [currentBatch |-> <<>>, batchNumber |-> 0, totalEmailsParsed |-> 0,
               delivered |-> <<>>]

InitRun ==
    /\ offset = 0
    /\ leftover = <<>>
    /\ batch = EmptyBatch
    /\ handed = <<>>
    /\ parsedText = <<>>
    /\ olmIndex = 0
    /\ resultEmails = <<>>
    /\ emailCount = 0
    /\ retval = -1
    /\ outcome = "pending"
    /\ fatal = "none"
    /\ errorSeen = "none"
    /\ cancelRequested = FALSE
    /\ senderContactMap = <<>>
    /\ contacts = <<>>
    /\ progress = <<>>
    /\ callResult = <<>>
    /\ pendingEmails = <<>>
    /\ arrays = <<<<>>>>
    /\ calls = <<>>
    /\ reads = <<>>
    /\ scans = <<>>

\* MBOXParser.parse or parseArchive on a small File or a Buffer of MBOX text.
InitSmall ==
    /\ file \in FilesOf(ParseLines, MaxLines)
    /\ entries = <<>>
    /\ addressBook = <<>>
    /\ callArg = <<>>
    /\ \/ /\ entry = "MBOXParser.parse"
          /\ input \in {[kind |-> "File", ext |-> "mbox", large |-> FALSE, isZip |-> FALSE],
                        [kind |-> "Buffer", ext |-> "", large |-> FALSE, isZip |-> FALSE]}
          /\ pc = "mbox_parse"
       \/ /\ entry = "parseArchive"
          /\ input \in {[kind |-> "File", ext |-> "mbox", large |-> FALSE, isZip |-> FALSE],
                        [kind |-> "Buffer", ext |-> "", large |-> FALSE, isZip |-> FALSE]}
          /\ pc = "call"
    /\ chunkSize = 1
    /\ batchSize = 1
    /\ hasOnBatch = FALSE
    /\ InitRun
    /\ DetIdle

\* MBOXParser.parseStreaming, called directly or through parseArchive and
\* MBOXParser.parse on a large File.
InitStream ==
    /\ file \in FilesOf(StreamLines, MaxStreamLines)
    /\ entries = <<>>
    /\ addressBook = <<>>
    /\ callArg = <<>>
    /\ input = [kind |-> "File", ext |-> "mbox", large |-> TRUE, isZip |-> FALSE]
    /\ \/ /\ entry = "MBOXParser.parseStreaming"
          /\ hasOnBatch \in BOOLEAN
          /\ pc = "streaming"
       \/ /\ entry = "parseArchive"
          /\ hasOnBatch = FALSE
          /\ pc = "call"
    /\ chunkSize \in 1..MaxChunk
    /\ batchSize \in 1..MaxBatch
    /\ InitRun
    /\ DetIdle

\* OLMParser.parse or parseArchive on an OLM archive, or on bytes that are
\* no ZIP archive.
InitOlm ==
    /\ file = <<>>
    /\ entries \in OlmArchives
    /\ addressBook = <<>>
    /\ callArg = <<>>
    /\ \/ /\ entry = "OLMParser.parse"
          /\ pc = "olm_load"
       \/ /\ entry = "parseArchive"
          /\ pc = "call"
    /\ input \in {[kind |-> k, ext |-> IF k = "File" THEN "olm" ELSE "", large |-> FALSE,
                   isZip |-> z] : k \in {"File", "Buffer"}, z \in BOOLEAN}
    /\ (~input.isZip => entries = <<>>)
    /\ chunkSize = 1
    /\ batchSize = 1
    /\ hasOnBatch = FALSE
    /\ InitRun
    /\ DetIdle

Init == InitSmall \/ InitStream \/ InitOlm


(***************************************************************************)
(* parseArchive: the choice of the parser.                                 *)
(***************************************************************************)
ParseArchive ==
    /\ UNCHANGED <<detVars, callVars, streamVars, olmVars, progress>>
    /\ pc = "call"
    /\ LET isFile == input.kind = "File"
           isOLM == isFile /\ input.ext = "olm"
           isMBOX == isFile /\ input.ext \in {"mbox", "mbx"}
       IN  pc' = IF isOLM \/ (~isMBOX /\ ~isFile) THEN "olm_load" ELSE "mbox_parse"
    /\ UNCHANGED <<entry, input, file, entries, chunkSize, batchSize, hasOnBatch, offset,
                   leftover, batch, handed, parsedText, olmIndex, resultEmails,
                   emailCount, retval, outcome, fatal, errorSeen, cancelRequested>>

(***************************************************************************)
(* MBOXParser.parse.                                                       *)
(***************************************************************************)
IsLargeFile == input.kind = "File" /\ input.large

\* A large File: parseStreaming with a callback that pushes onto result.emails.
MBOXParseLarge ==
    /\ UNCHANGED <<detVars, callVars, streamVars, olmVars, progress>>
    /\ pc = "mbox_parse"
    /\ IsLargeFile
    /\ pc' = "streaming"
    /\ hasOnBatch' = TRUE
    /\ UNCHANGED <<entry, input, file, entries, chunkSize, batchSize, offset, leftover,
                   batch, handed, parsedText, olmIndex, resultEmails, emailCount, retval,
                   outcome, fatal, errorSeen, cancelRequested>>

\* A small File or a Buffer: the whole text at once.
MBOXParseSmall ==
    /\ UNCHANGED <<detVars, callVars, streamVars, olmVars>>
    /\ progress' = reportProgress(progress, "extracting", 0, 1) \o ParseSmallEvents(file)
    /\ pc = "mbox_parse"
    /\ ~IsLargeFile
    /\ resultEmails' = ParseSmallEmails(file)
    /\ emailCount' = Len(resultEmails')
    /\ handed' = BlocksOfText(file)
    /\ parsedText' = file
    /\ outcome' = "returned"
    /\ pc' = "done"
    /\ UNCHANGED <<entry, input, file, entries, chunkSize, batchSize, hasOnBatch, offset,
                   leftover, batch, olmIndex, retval, fatal, errorSeen, cancelRequested>>

\* file.text() rejects: the rejection reaches the caller.
MBOXParseReadError ==
    /\ UNCHANGED <<detVars, callVars, streamVars, olmVars>>
    /\ progress' = reportProgress(progress, "extracting", 0, 1)
    /\ pc = "mbox_parse"
    /\ input.kind = "File"
    /\ ~input.large
    /\ fatal' = "read"
    /\ errorSeen' = "read"
    /\ outcome' = "thrown"
    /\ pc' = "done"
    /\ UNCHANGED <<entry, input, file, entries, chunkSize, batchSize, hasOnBatch, offset,
                   leftover, batch, handed, parsedText, olmIndex, resultEmails,
                   emailCount, retval, cancelRequested>>

(***************************************************************************)
(* MBOXParser.parseStreaming.                                              *)
(***************************************************************************)
\* What the caller holds once parseStreaming has returned count.
StreamReturn(st) ==
    /\ retval' = st.totalEmailsParsed
    /\ resultEmails' = IF entry = "MBOXParser.parseStreaming" THEN resultEmails
                       ELSE FlattenBatches(st.delivered)
    /\ emailCount' = IF entry = "MBOXParser.parseStreaming" THEN emailCount
                     ELSE st.totalEmailsParsed
    /\ outcome' = "returned"
    /\ pc' = "done"

\* The code after the loop: the leftover, the final batch, the return.
StreamEnd ==
    LET finalEmails == IF IsBlank(leftover) THEN <<>> ELSE parseEmailsFromText(leftover)
        st == FinalBatch([batch EXCEPT !.currentBatch = @ \o finalEmails], hasOnBatch)
    IN  /\ batch' = st
        /\ handed' = IF IsBlank(leftover) THEN handed ELSE handed \o BlocksOfText(leftover)
        /\ parsedText' = IF IsBlank(leftover) THEN parsedText ELSE parsedText \o leftover
        /\ leftover' = leftover
        /\ progress' = reportProgress(StreamStarted(progress), "complete", 100, 1)
        /\ StreamReturn(st)

\* A variant of the chunk loop that looks at the host's cancellation request
\* before each chunk and, once it is set, stops with the outcome "cancelled".
StreamReadChunk_Cancellable ==
    /\ UNCHANGED <<detVars, callVars, streamVars, olmVars>>
    /\ pc = "streaming"
    /\ offset < Len(file)
    /\ IF cancelRequested
       THEN /\ outcome' = "cancelled"
            /\ pc' = "done"
            /\ UNCHANGED <<leftover, batch, handed, parsedText, offset, resultEmails,
                           progress>>
       ELSE LET chunkEnd == Min(offset + chunkSize, Len(file))
                chunkText == Substring(file, offset, chunkEnd)
                sp == SplitProcessable(leftover \o chunkText, chunkEnd >= Len(file))
                chunkEmails == parseEmailsFromText(sp.processableText)
            IN  /\ leftover' = sp.leftover
                /\ batch' = BatchLoop(chunkEmails, batch, batchSize, hasOnBatch)
                /\ handed' = handed \o BlocksOfText(sp.processableText)
                /\ parsedText' = parsedText \o sp.processableText
                /\ offset' = chunkEnd
                /\ progress' = reportProgress(StreamStarted(progress), "parsing_emails",
                                             StreamProgress(chunkEnd, Len(file)), 1)
                /\ resultEmails' = IF entry = "MBOXParser.parseStreaming" THEN resultEmails
                                   ELSE FlattenBatches(batch'.delivered)
                /\ UNCHANGED <<pc, outcome>>
    /\ UNCHANGED <<entry, input, file, entries, chunkSize, batchSize, hasOnBatch,
                   olmIndex, emailCount, retval, fatal, errorSeen, cancelRequested>>

\* One iteration of the chunk loop whose read succeeds.
StreamReadChunk ==
    /\ UNCHANGED <<detVars, callVars, streamVars, olmVars>>
    /\ pc = "streaming"
    /\ offset < Len(file)
    /\ LET chunkEnd == Min(offset + chunkSize, Len(file))
           chunkText == Substring(file, offset, chunkEnd)
           sp == SplitProcessable(leftover \o chunkText, chunkEnd >= Len(file))
           chunkEmails == parseEmailsFromText(sp.processableText)
       IN  /\ leftover' = sp.leftover
           /\ batch' = BatchLoop(chunkEmails, batch, batchSize, hasOnBatch)
           /\ handed' = handed \o BlocksOfText(sp.processableText)
           /\ parsedText' = parsedText \o sp.processableText
           /\ offset' = chunkEnd
           /\ progress' = reportProgress(StreamStarted(progress), "parsing_emails",
                                        StreamProgress(chunkEnd, Len(file)), 1)
           /\ resultEmails' = IF entry = "MBOXParser.parseStreaming" THEN resultEmails
                              ELSE FlattenBatches(batch'.delivered)
    /\ UNCHANGED <<entry, input, file, entries, chunkSize, batchSize, hasOnBatch, pc,
                   olmIndex, emailCount, retval, outcome, fatal, errorSeen, cancelRequested>>

\* A variant of the failed read in which the rejection reaches the caller.
StreamReadError_Throws ==
    /\ UNCHANGED <<detVars, callVars, streamVars, olmVars>>
    /\ progress' = StreamStarted(progress)
    /\ pc = "streaming"
    /\ offset < Len(file)
    /\ fatal' = "read"
    /\ errorSeen' = "read"
    /\ outcome' = "thrown"
    /\ pc' = "done"
    /\ UNCHANGED <<entry, input, file, entries, chunkSize, batchSize, hasOnBatch, offset,
                   leftover, batch, handed, parsedText, olmIndex, resultEmails,
                   emailCount, retval, cancelRequested>>

\* chunk.text() rejects: the loop is left, the code after it runs.
StreamReadError ==
    /\ UNCHANGED <<detVars, callVars, streamVars, olmVars>>
    /\ pc = "streaming"
    /\ offset < Len(file)
    /\ fatal' = "read"
    /\ StreamEnd
    /\ UNCHANGED <<entry, input, file, entries, chunkSize, batchSize, hasOnBatch, offset,
                   olmIndex, errorSeen, cancelRequested>>

\* The loop ends with the whole file read.
StreamFinish ==
    /\ UNCHANGED <<detVars, callVars, streamVars, olmVars>>
    /\ pc = "streaming"
    /\ offset >= Len(file)
    /\ StreamEnd
    /\ UNCHANGED <<entry, input, file, entries, chunkSize, batchSize, hasOnBatch, offset,
                   olmIndex, fatal, errorSeen, cancelRequested>>

(***************************************************************************)
(* OLMParser.parse.                                                        *)
(***************************************************************************)
OlmLoadZip ==
    /\ UNCHANGED <<detVars, callVars, streamVars, olmVars>>
    /\ progress' = LET extracted == reportProgress(
                                      reportProgress(progress, "extracting", 0, 1),
                                      "extracting", 100, 1)
                   IN  IF Len(entries) > 0
                       THEN reportProgress(extracted, "parsing_emails", 0, 1)
                       ELSE extracted
    /\ pc = "olm_load"
    /\ input.isZip
    /\ pc' = "olm_emails"
    /\ olmIndex' = 0
    /\ UNCHANGED <<entry, input, file, entries, chunkSize, batchSize, hasOnBatch, offset,
                   leftover, batch, handed, parsedText, resultEmails, emailCount, retval,
                   outcome, fatal, errorSeen, cancelRequested>>

\* JSZip.loadAsync rejects: the outer catch rethrows, no result is returned.
OlmLoadZipError ==
    /\ UNCHANGED <<detVars, callVars, streamVars, olmVars>>
    /\ progress' = reportProgress(progress, "extracting", 0, 1)
    /\ pc = "olm_load"
    /\ ~input.isZip
    /\ fatal' = "zip"
    /\ errorSeen' = "zip"
    /\ outcome' = "thrown"
    /\ pc' = "done"
    /\ UNCHANGED <<entry, input, file, entries, chunkSize, batchSize, hasOnBatch, offset,
                   leftover, batch, handed, parsedText, olmIndex, resultEmails,
                   emailCount, retval, cancelRequested>>

\* A variant of the email loop without the try/catch around one entry: an
\* entry that cannot be read ends the whole parse.
OlmParseEmail_Rethrow ==
    /\ UNCHANGED <<detVars, callVars, streamVars, addressBook, contacts>>
    /\ pc = "olm_emails"
    /\ olmIndex < Len(entries)
    /\ LET e == entries[olmIndex + 1]
       IN  IF e.kind = "unreadable"
           THEN /\ outcome' = "thrown"
                /\ pc' = "done"
                /\ UNCHANGED <<resultEmails, emailCount, olmIndex, senderContactMap,
                               progress>>
           ELSE /\ resultEmails' = resultEmails \o parseEmailXML(e)
                /\ emailCount' = emailCount + Len(parseEmailXML(e))
                /\ olmIndex' = olmIndex + 1
                /\ senderContactMap' =
                      IF parseEmailXML(e) = <<>> THEN senderContactMap
                      ELSE TrackSender(senderContactMap, parseEmailXML(e)[1])
                /\ progress' =
                      IF olmIndex % ProgressEvery = 0 \/ olmIndex = Len(entries) - 1
                      THEN reportProgress(progress, "parsing_emails",
                                          Round((olmIndex + 1) * 100, Len(entries)), 1)
                      ELSE progress
                /\ UNCHANGED <<pc, outcome>>
    /\ UNCHANGED <<entry, input, file, entries, chunkSize, batchSize, hasOnBatch,
                   offset, leftover, batch, handed, parsedText, retval, fatal,
                   errorSeen, cancelRequested>>

\* One iteration of the email loop; an entry that cannot be read is skipped.
OlmParseEmail ==
    /\ UNCHANGED <<detVars, callVars, streamVars, addressBook, contacts>>
    /\ pc = "olm_emails"
    /\ olmIndex < Len(entries)
    /\ LET e == entries[olmIndex + 1]
           email == IF e.kind = "unreadable" THEN <<>> ELSE parseEmailXML(e)
       IN  /\ resultEmails' = resultEmails \o email
           /\ emailCount' = emailCount + Len(email)
           /\ senderContactMap' = IF email = <<>> THEN senderContactMap
                                  ELSE TrackSender(senderContactMap, email[1])
    /\ progress' = IF olmIndex % ProgressEvery = 0 \/ olmIndex = Len(entries) - 1
                   THEN reportProgress(progress, "parsing_emails",
                                       Round((olmIndex + 1) * 100, Len(entries)), 1)
                   ELSE progress
    /\ olmIndex' = olmIndex + 1
    /\ UNCHANGED <<entry, input, file, entries, chunkSize, batchSize, hasOnBatch, pc,
                   offset, leftover, batch, handed, parsedText, retval, outcome, fatal,
                   errorSeen, cancelRequested>>

\* The code after the email loop: contacts, then the return.
OlmFinish ==
    /\ UNCHANGED <<detVars, callVars, streamVars, addressBook, senderContactMap>>
    /\ LET done == ContactStages(addressBook, senderContactMap, progress)
       IN  /\ contacts' = done.contacts
           /\ progress' = done.log
    /\ pc = "olm_emails"
    /\ olmIndex >= Len(entries)
    /\ outcome' = "returned"
    /\ pc' = "done"
    /\ UNCHANGED <<entry, input, file, entries, chunkSize, batchSize, hasOnBatch, offset,
                   leftover, batch, handed, parsedText, olmIndex, resultEmails,
                   emailCount, retval, fatal, errorSeen, cancelRequested>>

(***************************************************************************)
(* The host asks for cancellation while part of the source is still to be  *)
(* parsed.  No operation of the parsers takes a cancellation input.        *)
(***************************************************************************)
HostCancel ==
    /\ UNCHANGED <<detVars, callVars, streamVars, olmVars, progress>>
    /\ \/ pc = "streaming" /\ offset < Len(file)
       \/ pc = "olm_emails" /\ olmIndex < Len(entries)
    /\ ~cancelRequested
    /\ cancelRequested' = TRUE
    /\ UNCHANGED <<entry, input, file, entries, chunkSize, batchSize, hasOnBatch, pc,
                   offset, leftover, batch, handed, parsedText, olmIndex, resultEmails,
                   emailCount, retval, outcome, fatal, errorSeen>>

Next ==
    \/ ParseArchive
    \/ MBOXParseLarge
    \/ MBOXParseSmall
    \/ MBOXParseReadError
    \/ StreamReadChunk
    \/ StreamReadError
    \/ StreamFinish
    \/ OlmLoadZip
    \/ OlmLoadZipError
    \/ OlmParseEmail
    \/ OlmFinish
    \/ HostCancel

Spec == Init /\ [][Next]_vars


(***************************************************************************)
(* Properties.                                                             *)
(***************************************************************************)
Range(sq) == {sq[i] : i \in 1..Len(sq)}

FirstLine == SplitLines(NormalizeLineEndings(file))[1]

\* The source is an MBOX text: it opens with a valid separator line.
OpensWithSeparator == isFromLine(FirstLine)

\* A parse of a large file that has returned without a failed read.
StreamDone == pc = "done" /\ input.large /\ fatal = "none"

\* A parse that went through MBOXParser.parse and has returned its result.
MboxResultDone ==
    /\ pc = "done"
    /\ outcome = "returned"
    /\ entry # "MBOXParser.parseStreaming"
    /\ entries = <<>>
    /\ ~input.isZip

\* parseStreaming when the whole file fits in one chunk.
StreamOneChunk(text) ==
    parseEmailsFromText(SplitProcessable(text, TRUE).processableText)

\* OLMParser.parse's email loop over entries that can all be read.
RECURSIVE OlmEmailsOf(_)
OlmEmailsOf(es) ==
    IF es = <<>> THEN <<>> ELSE parseEmailXML(es[1]) \o OlmEmailsOf(Tail(es))

\* C1: for an MBOX text, the records parseStreaming hands to onBatch, batch
\* after batch, are the records the in-memory path of parse() returns for
\* the same text, in the same order.
C1_StreamingEqualsInMemory ==
    (StreamDone /\ hasOnBatch /\ OpensWithSeparator)
        => FlattenBatches(batch.delivered) = ParseSmallEmails(file)

\* C2: for an MBOX text, the set of records parseStreaming emits is the same
\* for every chunk size: it is the set emitted when one chunk holds the file.
C2_ChunkSizeInvariance ==
    (StreamDone /\ hasOnBatch /\ OpensWithSeparator)
        => Range(FlattenBatches(batch.delivered)) = Range(StreamOneChunk(file))

\* C3: the blocks parseStreaming hands to the message parser partition the
\* source: every byte is in exactly one block, each block begins at a valid
\* separator line and runs to just before the next one, so there is one
\* block for each separator line.
C3_BlocksPartitionSource ==
    (StreamDone /\ OpensWithSeparator)
        => /\ parsedText = file
           /\ Len(handed) = CountFromLines(file)
           /\ \A i \in 1..Len(handed) :
                /\ isFromLine(handed[i][1])
                /\ \A k \in 2..Len(handed[i]) : ~isFromLine(handed[i][k])

\* C4: the in-memory path emits at most as many records as the archive has
\* valid separator lines; a line that begins with "From " but has no day
\* token adds no record.
C4_CountBoundedBySeparators ==
    (MboxResultDone /\ ~input.large /\ StartsWithAt(file, <<FROM_>>, 0))
        => Len(resultEmails) <= CountFromLines(file)

\* C5: a record whose parsing throws is skipped alone: the parse returns, and
\* it returns the records of all the other messages or entries, in order.
C5_MalformedRecordSkipped ==
    /\ (pc = "done" /\ input.isZip)
          => /\ outcome = "returned"
             /\ resultEmails =
                  OlmEmailsOf(SelectSeq(entries, LAMBDA e : e.kind # "unreadable"))
    /\ (MboxResultDone /\ fatal = "none")
          => resultEmails =
                  EmailsOfBlocks(SelectSeq(handed, LAMBDA b : ~ThrowsInside(b)))

C5_Witness ==
    /\ pc = "done"
    /\ input.isZip
    /\ Len(entries) = 3
    /\ entries[1].kind = "sender"
    /\ entries[2].kind = "unreadable"
    /\ entries[3].kind = "sender"
    /\ Len(resultEmails) = 2

C7_CancelStopsParse ==
    (pc = "done" /\ cancelRequested /\ fatal = "none")
        => /\ outcome = "cancelled"
           /\ (input.large => offset < Len(file))
           /\ (input.isZip => olmIndex < Len(entries))

\* C7: the parsers take no cancellation input: a parse whose host asked for
\* cancellation runs to the end of the source, hands over every batch and
\* returns like any other parse.
C7_CancelIgnored ==
    (pc = "done" /\ cancelRequested /\ fatal = "none")
        => /\ outcome = "returned"
           /\ (input.large
                 => /\ parsedText = file
                    /\ (hasOnBatch
                          => FlattenBatches(batch.delivered) = EmailsOfBlocks(handed)))
           /\ (input.isZip => olmIndex = Len(entries))

C7_Witness ==
    /\ pc = "done"
    /\ cancelRequested
    /\ input.large
    /\ fatal = "none"
    /\ hasOnBatch
    /\ offset = Len(file)
    /\ Len(batch.delivered) >= 1

C9_ReturnsTotalCount ==
    (StreamDone /\ entry = "MBOXParser.parseStreaming" /\ OpensWithSeparator)
        => retval = Len(EmailsOfBlocks(handed))

\* C10: when parse() or parseArchive returns after a parse without a fatal
\* error, stats.emailCount is the length of emails.
C10_EmailCountIsLength ==
    (pc = "done" /\ outcome = "returned" /\ fatal = "none"
       /\ entry # "MBOXParser.parseStreaming")
        => emailCount = Len(resultEmails)

C10_Witness ==
    /\ pc = "done"
    /\ outcome = "returned"
    /\ fatal = "none"
    /\ entry = "parseArchive"
    /\ input.large
    /\ batch.totalEmailsParsed > batchSize * batch.batchNumber
    /\ emailCount >= 1


\* The entries of an OLM archive in ascending order of the n of message_<n>.xml.
RECURSIVE AscendingN(_)
AscendingN(es) ==
    IF es = <<>> THEN <<>>
    ELSE LET m == CHOOSE i \in 1..Len(es) : \A j \in 1..Len(es) : es[i].n <= es[j].n
         IN  <<es[m]>> \o AscendingN(SubSeq(es, 1, m - 1) \o SubSeq(es, m + 1, Len(es)))

\* C11: the emails of one archive are emitted in source order: for MBOX in the
\* order of their bytes in the file, for OLM in ascending order of the n of
\* message_<n>.xml, whatever the order in which the ZIP lists its entries.
C11_SourceOrder ==
    /\ (MboxResultDone /\ fatal = "none")
          => /\ parsedText = file
             /\ resultEmails = EmailsOfBlocks(handed)
    /\ (pc = "done" /\ input.isZip /\ outcome = "returned")
          => resultEmails =
                OlmEmailsOf(AscendingN(SelectSeq(entries, LAMBDA e : e.kind # "unreadable")))

\* C13: parseArchive picks the parser from the format of its input, whatever
\* the input type: the bytes of an MBOX file given as a Buffer are parsed by
\* MBOXParser and give the MBOX emails, not an error.
C13_BufferDispatch ==
    (pc = "done" /\ entry = "parseArchive" /\ input.kind = "Buffer" /\ ~input.isZip
       /\ OpensWithSeparator)
        => /\ outcome = "returned"
           /\ resultEmails = ParseSmallEmails(file)


(***************************************************************************)
(* MBOX texts whose bodies may be base64 image data: a body line made of   *)
(* the first bytes of a base64-encoded JPEG ("/9j/4AAQSkZJRg...").         *)
(***************************************************************************)
JpegBase64 == "/9j/4AAQSkZJRg"
JpegLine == <<JpegBase64>>
GuardLines == {FromValid, HdrSubject, <<>>, JpegLine, BodyLine}

InitGuard ==
    /\ file \in FilesOf(GuardLines, MaxLines)
    /\ entries = <<>>
    /\ addressBook = <<>>
    /\ callArg = <<>>
    /\ \/ /\ entry = "MBOXParser.parse"
          /\ input \in {[kind |-> "File", ext |-> "mbox", large |-> FALSE, isZip |-> FALSE],
                        [kind |-> "Buffer", ext |-> "", large |-> FALSE, isZip |-> FALSE]}
          /\ pc = "mbox_parse"
       \/ /\ entry = "parseArchive"
          /\ input = [kind |-> "File", ext |-> "mbox", large |-> FALSE, isZip |-> FALSE]
          /\ pc = "call"
    /\ chunkSize = 1
    /\ batchSize = 1
    /\ hasOnBatch = FALSE
    /\ InitRun
    /\ DetIdle

NextGuard ==
    \/ ParseArchive
    \/ MBOXParseSmall
    \/ MBOXParseReadError

SpecGuard == InitGuard /\ [][NextGuard]_vars

\* A record whose body begins with base64 JPEG data under the default subject.
IsBinaryRecord(email) ==
    /\ email.subject = NoSubject
    /\ email.body # <<>>
    /\ email.body[1] = JpegLine

\* C12: binary guard: an MBOX record whose body begins with base64 JPEG data
\* and whose subject is "(No Subject)" is rejected: it is not among the
\* emitted emails and is not counted in stats.emailCount.
C12_BinaryGuard ==
    (MboxResultDone /\ OpensWithSeparator)
        => /\ \A i \in 1..Len(resultEmails) : ~IsBinaryRecord(resultEmails[i])
           /\ emailCount =
                Len(SelectSeq(EmailsOfBlocks(handed), LAMBDA e : ~IsBinaryRecord(e)))


(***************************************************************************)
(* The detectors.  An email given to a detector is [id, date, f]: f holds  *)
(* what the detector's patterns and look-ups find in the email (the        *)
(* outcome of each regular-expression test, each extracted text).  Dates   *)
(* are days.                                                               *)
(***************************************************************************)
MaxEmails == 3
MaxDate == 2

\* The emails of a list: ids are the positions in the list.
Stamp(l) == [i \in 1..Len(l) |-> [id |-> i, date |-> l[i].date, f |-> l[i].f]]

EmailLists(samples, days, maxLen) ==
    {Stamp(l) : l \in UNION {[1..n -> [date : days, f : samples]] : n \in 0..maxLen}}

(***************************************************************************)
(* AccountDetector.  f = [known, subjectHit, bodyHit, extracted,           *)
(* domainName]: the name findKnownService gives for the sender's domain    *)
(* ("" for null), whether a strong subject pattern and a strong body       *)
(* pattern match, what extractServiceName(subject) and                     *)
(* formatDomainAsServiceName(domain) return.                               *)
(***************************************************************************)
AccountFeatures ==
    [known : {"", "Netflix"}, subjectHit : BOOLEAN, bodyHit : BOOLEAN,
     extracted : {"", "netflix"}, domainName : {"", "Acme"}]

AccountSamples ==
    { [known |-> "Netflix", subjectHit |-> TRUE, bodyHit |-> FALSE,
       extracted |-> "", domainName |-> ""],
      [known |-> "", subjectHit |-> TRUE, bodyHit |-> TRUE,
       extracted |-> "netflix", domainName |-> "Acme"],
      [known |-> "", subjectHit |-> TRUE, bodyHit |-> TRUE,
       extracted |-> "", domainName |-> "Acme"],
      [known |-> "", subjectHit |-> FALSE, bodyHit |-> FALSE,
       extracted |-> "", domainName |-> "Acme"] }

AccountNone == [type |-> "none", confidence |-> 0, serviceName |-> ""]

\* AccountDetector.detect.
AccountDetect(email) ==
    LET f == email.f
        afterKnown == IF f.known # "" THEN 40 ELSE 0
        afterSubject == afterKnown + (IF f.subjectHit THEN 40 ELSE 0)
        afterBody == afterSubject + (IF f.bodyHit THEN 30 ELSE 0)
        needsName == afterBody >= 40 /\ f.known = ""
        detectedService == IF f.known # "" THEN f.known
                           ELSE IF ~needsName THEN ""
                           ELSE IF f.extracted # "" THEN f.extracted
                           ELSE f.domainName
        confidence == afterBody + (IF needsName /\ f.extracted # "" THEN 10 ELSE 0)
    IN  IF confidence >= 70 /\ detectedService # ""
        THEN [type |-> "account", confidence |-> confidence,
              serviceName |-> detectedService]
        ELSE AccountNone

\* A variant of the Map key of detectBatch that keeps the letter case.
AccountKey_CaseSensitive(serviceName) == serviceName

\* detectBatch: the key of accountMap.
AccountKey(serviceName) == ToLowerCase(serviceName)

\* A variant of the update of an existing account that keeps the latest date.
AccountMerge_Latest(existing, email) ==
    LET counted == [existing EXCEPT !.emailCount = @ + 1]
    IN  IF email.date > existing.signupDate
        THEN [counted EXCEPT !.signupDate = email.date, !.signupEmailId = email.id]
        ELSE counted

\* detectBatch: the update of the account already in accountMap.
AccountMerge(existing, email) ==
    LET counted == [existing EXCEPT !.emailCount = @ + 1]
    IN  IF email.date < existing.signupDate
        THEN [counted EXCEPT !.signupDate = email.date, !.signupEmailId = email.id]
        ELSE counted

\* detectBatch: the loop over the emails; accountMap in insertion order.
RECURSIVE AccountBatchLoop(_, _, _)
AccountBatchLoop(emails, i, accountMap) ==
    IF i > Len(emails) THEN accountMap
    ELSE LET email == emails[i]
             result == AccountDetect(email)
             key == AccountKey(result.serviceName)
             at == MapIndex(accountMap, key)
         IN  IF result.type = "account" /\ result.serviceName # ""
             THEN IF at = 0
                  THEN AccountBatchLoop(emails, i + 1,
                          Append(accountMap,
                                 [key |-> key,
                                  serviceName |-> result.serviceName,
                                  signupEmailId |-> email.id,
                                  signupDate |-> email.date,
                                  emailCount |-> 1]))
                  ELSE AccountBatchLoop(emails, i + 1,
                          [accountMap EXCEPT ![at] = AccountMerge(@, email)])
             ELSE AccountBatchLoop(emails, i + 1, accountMap)

\* Array.from(map.values()): the records without their keys.
AccountValues(map) ==
    [i \in 1..Len(map) |-> [serviceName |-> map[i].serviceName,
                            signupEmailId |-> map[i].signupEmailId,
                            signupDate |-> map[i].signupDate,
                            emailCount |-> map[i].emailCount]]

\* AccountDetector.detectBatch.
AccountDetectBatch(emails) == AccountValues(AccountBatchLoop(emails, 1, <<>>))


(***************************************************************************)
(* SubscriptionDetector.  f = [known, subjectHit, bodyMatches, amount,     *)
(* frequency, extracted, senderName, domainName]: the name                 *)
(* findKnownSubscription gives ("" for null), whether a subject pattern    *)
(* matches, how many body patterns match, what extractAmount (0 for no     *)
(* amount), detectFrequency and extractServiceName ("" for undefined)      *)
(* return, email.senderName and formatDomainAsName(domain).                *)
(***************************************************************************)
\* String.prototype.length on the names of the model.
NameLength(str) ==
    CASE str = "" -> 0
      [] str = "TV" -> 2
      [] str = "Acme" -> 4
      [] str = "netflix" -> 7
      [] str = "Netflix" -> 7
      [] OTHER -> 12

SubscriptionSamples ==
    { [known |-> "Netflix", subjectHit |-> TRUE, bodyMatches |-> 0, amount |-> 16,
       frequency |-> "monthly", extracted |-> "", senderName |-> "", domainName |-> ""],
      [known |-> "Netflix", subjectHit |-> TRUE, bodyMatches |-> 1, amount |-> 0,
       frequency |-> "yearly", extracted |-> "", senderName |-> "", domainName |-> ""],
      [known |-> "", subjectHit |-> FALSE, bodyMatches |-> 2, amount |-> 18,
       frequency |-> "weekly", extracted |-> "netflix", senderName |-> "",
       domainName |-> "Acme"],
      [known |-> "", subjectHit |-> TRUE, bodyMatches |-> 0, amount |-> 5,
       frequency |-> "monthly", extracted |-> "TV", senderName |-> "Acme Billing",
       domainName |-> "Acme"],
      [known |-> "", subjectHit |-> FALSE, bodyMatches |-> 1, amount |-> 16,
       frequency |-> "monthly", extracted |-> "netflix", senderName |-> "",
       domainName |-> "Acme"] }

\* SubscriptionDetector.detect.
SubscriptionDetect(email) ==
    LET f == email.f
        isSubscription == f.subjectHit \/ f.bodyMatches >= 2
        named == IF f.known # "" THEN f.known ELSE f.extracted
        serviceName == IF ~isSubscription THEN f.known
                       ELSE IF named # "" /\ NameLength(named) >= 3 THEN named
                       ELSE IF f.senderName # "" /\ NameLength(f.senderName) > 2
                            THEN f.senderName
                       ELSE f.domainName
    IN  [isSubscription |-> isSubscription,
         serviceName |-> serviceName,
         amount |-> IF isSubscription THEN f.amount ELSE 0,
         frequency |-> IF isSubscription THEN f.frequency ELSE ""]

\* A variant of the update of an existing subscription that records the id of
\* an email only when the email is the most recent one.
SubscriptionMerge_IdsOfRecent(existing, email, result) ==
    IF email.date > existing.lastRenewalDate
    THEN [existing EXCEPT
            !.emailIds = Append(@, email.id),
            !.lastRenewalDate = email.date,
            !.monthlyAmount = IF result.amount > 0 THEN result.amount ELSE @,
            !.frequency = IF result.frequency # "" THEN result.frequency ELSE @]
    ELSE existing

\* detectBatch: the update of the subscription already in subscriptionMap.
SubscriptionMerge(existing, email, result) ==
    LET pushed == [existing EXCEPT !.emailIds = Append(@, email.id)]
    IN  IF email.date > existing.lastRenewalDate
        THEN [pushed EXCEPT
                !.lastRenewalDate = email.date,
                !.monthlyAmount = IF result.amount > 0 THEN result.amount ELSE @,
                !.frequency = IF result.frequency # "" THEN result.frequency ELSE @]
        ELSE pushed

\* detectBatch: the loop over the emails; subscriptionMap in insertion order.
RECURSIVE SubscriptionBatchLoop(_, _, _)
SubscriptionBatchLoop(emails, i, subscriptionMap) ==
    IF i > Len(emails) THEN subscriptionMap
    ELSE LET email == emails[i]
             result == SubscriptionDetect(email)
             key == ToLowerCase(result.serviceName)
             at == MapIndex(subscriptionMap, key)
         IN  IF result.isSubscription /\ result.serviceName # ""
             THEN IF at = 0
                  THEN SubscriptionBatchLoop(emails, i + 1,
                          Append(subscriptionMap,
                                 [key |-> key,
                                  serviceName |-> result.serviceName,
                                  monthlyAmount |-> result.amount,
                                  frequency |-> IF result.frequency # ""
                                                THEN result.frequency ELSE "monthly",
                                  lastRenewalDate |-> email.date,
                                  emailIds |-> <<email.id>>]))
                  ELSE SubscriptionBatchLoop(emails, i + 1,
                          [subscriptionMap EXCEPT ![at] = SubscriptionMerge(@, email, result)])
             ELSE SubscriptionBatchLoop(emails, i + 1, subscriptionMap)

\* Array.from(map.values()): the records without their keys.
SubscriptionValues(map) ==
    [i \in 1..Len(map) |-> [serviceName |-> map[i].serviceName,
                            monthlyAmount |-> map[i].monthlyAmount,
                            frequency |-> map[i].frequency,
                            lastRenewalDate |-> map[i].lastRenewalDate,
                            emailIds |-> map[i].emailIds]]

\* SubscriptionDetector.detectBatch.
SubscriptionDetectBatch(emails) ==
    SubscriptionValues(SubscriptionBatchLoop(emails, 1, <<>>))


(***************************************************************************)
(* NewsletterDetector.  f = [sender, senderName, subjectNews,              *)
(* subjectPromo, marketing, promoPrefix, unsubscribeLink, listUnsubscribe]:*)
(* email.sender and email.senderName, whether a newsletter and a           *)
(* promotional subject pattern match, how many marketing body patterns     *)
(* match, whether the domain has a known promotional prefix, whether       *)
(* extractUnsubscribeLink finds a link and whether the List-Unsubscribe    *)
(* pattern matches.                                                        *)
(***************************************************************************)
NewsDays == {1, 3, 12, 60}

NewsletterSamples ==
    { [sender |-> "a@x.com", senderName |-> "A News", subjectNews |-> TRUE,
       subjectPromo |-> FALSE, marketing |-> 2, promoPrefix |-> FALSE,
       unsubscribeLink |-> FALSE, listUnsubscribe |-> FALSE],
      [sender |-> "a@x.com", senderName |-> "A Deals", subjectNews |-> FALSE,
       subjectPromo |-> TRUE, marketing |-> 3, promoPrefix |-> FALSE,
       unsubscribeLink |-> FALSE, listUnsubscribe |-> FALSE],
      [sender |-> "b@x.com", senderName |-> "", subjectNews |-> TRUE,
       subjectPromo |-> FALSE, marketing |-> 0, promoPrefix |-> FALSE,
       unsubscribeLink |-> TRUE, listUnsubscribe |-> TRUE],
      [sender |-> "a@x.com", senderName |-> "Ann", subjectNews |-> FALSE,
       subjectPromo |-> FALSE, marketing |-> 1, promoPrefix |-> FALSE,
       unsubscribeLink |-> TRUE, listUnsubscribe |-> FALSE] }

\* NewsletterDetector.detect.
NewsletterDetect(email) ==
    LET f == email.f
        newsletterScore ==
            (IF f.subjectNews THEN 30 ELSE 0)
            + (IF f.marketing >= 3 THEN 25 ELSE IF f.marketing >= 2 THEN 15 ELSE 0)
            + (IF f.promoPrefix THEN 20 ELSE 0)
            + (IF f.unsubscribeLink THEN 15 ELSE 0)
            + (IF f.listUnsubscribe THEN 10 ELSE 0)
        promotionalScore ==
            (IF f.subjectPromo THEN 35 ELSE 0)
            + (IF f.marketing >= 3 THEN 20 ELSE IF f.marketing >= 2 THEN 10 ELSE 0)
            + (IF f.promoPrefix THEN 20 ELSE 0)
            + (IF f.unsubscribeLink THEN 10 ELSE 0)
        isPromotional == promotionalScore >= 40
        confidence == IF newsletterScore >= promotionalScore
                      THEN newsletterScore ELSE promotionalScore
    IN  [isNewsletter |-> newsletterScore >= 40 /\ ~isPromotional,
         isPromotional |-> isPromotional,
         confidence |-> Min(confidence, 100)]

\* detectBatch: the first loop; senderMap in insertion order.
RECURSIVE NewsletterGroupLoop(_, _, _)
NewsletterGroupLoop(emails, i, senderMap) ==
    IF i > Len(emails) THEN senderMap
    ELSE LET email == emails[i]
             result == NewsletterDetect(email)
             at == MapIndex(senderMap, email.f.sender)
         IN  IF result.isNewsletter \/ result.isPromotional
             THEN IF at = 0
                  THEN NewsletterGroupLoop(emails, i + 1,
                          Append(senderMap, [key |-> email.f.sender, emails |-> <<email>>]))
                  ELSE NewsletterGroupLoop(emails, i + 1,
                          [senderMap EXCEPT ![at].emails = Append(@, email)])
             ELSE NewsletterGroupLoop(emails, i + 1, senderMap)

\* One step of a stable sort by date, newest first: the email goes behind
\* every email that is not older than it.
InsertByDateDesc(sorted, email) ==
    LET before == Cardinality({k \in 1..Len(sorted) : sorted[k].date >= email.date})
    IN  SubSeq(sorted, 1, before) \o <<email>> \o SubSeq(sorted, before + 1, Len(sorted))

\* A variant of the sort that leaves the emails in the order of the input.
SortByDateDesc_Unsorted(emails) == emails

\* data.emails.sort((a, b) => b.date - a.date): Array.prototype.sort is stable.
RECURSIVE SortByDateDesc(_)
SortByDateDesc(emails) ==
    IF emails = <<>> THEN <<>>
    ELSE InsertByDateDesc(SortByDateDesc(SubSeq(emails, 1, Len(emails) - 1)),
                          emails[Len(emails)])

\* The sum of dates[i] - dates[i + 1] over the sorted emails.
RECURSIVE TotalDays(_)
TotalDays(sorted) ==
    IF Len(sorted) < 2 THEN 0
    ELSE (sorted[1].date - sorted[2].date) + TotalDays(Tail(sorted))

\* NewsletterDetector.calculateFrequency; avgDays = totalDays / (length - 1).
calculateFrequency(sorted) ==
    IF Len(sorted) < 2 THEN "irregular"
    ELSE LET totalDays == TotalDays(sorted)
             gaps == Len(sorted) - 1
         IN  IF totalDays <= 2 * gaps THEN "daily"
             ELSE IF totalDays <= 10 * gaps THEN "weekly"
             ELSE IF totalDays <= 45 * gaps THEN "monthly"
             ELSE "irregular"

\* NewsletterDetector.extractNameFromEmail on the senders of the model: the
\* domain x.com gives no name of two letters, so the local part is used.
extractNameFromEmail(email) ==
    CASE email = "a@x.com" -> "A"
      [] email = "b@x.com" -> "B"
      [] OTHER -> "Unknown"

\* detectBatch: the record pushed for one sender.
NewsletterOf(group) ==
    LET sortedEmails == SortByDateDesc(group.emails)
        latestEmail == sortedEmails[1]
    IN  [senderEmail |-> group.key,
         senderName |-> IF latestEmail.f.senderName # "" THEN latestEmail.f.senderName
                        ELSE extractNameFromEmail(group.key),
         emailCount |-> Len(group.emails),
         lastEmailDate |-> latestEmail.date,
         frequency |-> calculateFrequency(sortedEmails),
         isPromotional |-> NewsletterDetect(latestEmail).isPromotional]

\* NewsletterDetector.detectBatch.
NewsletterDetectBatch(emails) ==
    LET senderMap == NewsletterGroupLoop(emails, 1, <<>>)
    IN  [i \in 1..Len(senderMap) |-> NewsletterOf(senderMap[i])]


(***************************************************************************)
(* PurchaseDetector.  f = [antiPatternMatches, knownMerchant, subjectHit,  *)
(* bodyHit, amount, orderNumber, domainMerchant]: how many anti-patterns   *)
(* match subject + body, the name findKnownMerchant gives ("" for null),   *)
(* whether a strong subject and a strong body pattern match, what          *)
(* extractAmount(body) returns (0 for no amount), whether                  *)
(* extractOrderNumber finds a valid order number, and                      *)
(* formatDomainAsMerchant(domain).                                         *)
(***************************************************************************)
PurchaseFeatures ==
    [antiPatternMatches : 0..4, knownMerchant : {"", "Amazon"}, subjectHit : BOOLEAN,
     bodyHit : BOOLEAN, amount : {0, 50, 10000}, orderNumber : BOOLEAN,
     domainMerchant : {"", "Acme"}]

PurchaseNone == [type |-> "none", confidence |-> 0, merchant |-> "", amount |-> 0]

\* PurchaseDetector.detect: the confidence accrued before the decision.
PurchaseScore(f) ==
    LET base == (IF f.knownMerchant # "" THEN 30 ELSE 0)
                + (IF f.subjectHit THEN 35 ELSE 0)
                + (IF f.bodyHit THEN 25 ELSE 0)
    IN  IF base >= 30
        THEN base
             + (IF f.amount > 0 /\ f.amount < 10000 THEN 20
                ELSE IF f.amount >= 10000 THEN 10 ELSE 0)
             + (IF f.orderNumber THEN 15 ELSE 0)
        ELSE base

\* PurchaseDetector.detect: the amount and the merchant, looked for only when
\* the confidence has reached 30.
PurchaseAmount(f) ==
    LET base == (IF f.knownMerchant # "" THEN 30 ELSE 0)
                + (IF f.subjectHit THEN 35 ELSE 0)
                + (IF f.bodyHit THEN 25 ELSE 0)
    IN  IF base >= 30 THEN f.amount ELSE 0

PurchaseMerchant(f) ==
    LET base == (IF f.knownMerchant # "" THEN 30 ELSE 0)
                + (IF f.subjectHit THEN 35 ELSE 0)
                + (IF f.bodyHit THEN 25 ELSE 0)
    IN  IF f.knownMerchant # "" THEN f.knownMerchant
        ELSE IF base >= 30 THEN f.domainMerchant
        ELSE ""

\* A variant of detect that counts the anti-patterns but goes on all the same.
PurchaseDetect_NoAbort(email) ==
    LET f == email.f
        confidence == PurchaseScore(f)
        amount == PurchaseAmount(f)
        merchant == PurchaseMerchant(f)
    IN  IF confidence >= 70 /\ amount > 0 /\ merchant # ""
        THEN [type |-> "purchase", confidence |-> confidence,
              merchant |-> merchant, amount |-> amount]
        ELSE PurchaseNone

\* PurchaseDetector.detect.
PurchaseDetect(email) ==
    LET f == email.f
        confidence == PurchaseScore(f)
        amount == PurchaseAmount(f)
        merchant == PurchaseMerchant(f)
    IN  IF f.antiPatternMatches >= 3 THEN PurchaseNone
        ELSE IF confidence >= 70 /\ amount > 0 /\ merchant # ""
        THEN [type |-> "purchase", confidence |-> confidence,
              merchant |-> merchant, amount |-> amount]
        ELSE PurchaseNone


(***************************************************************************)
(* The host calls one operation of one detector on emails it holds.        *)
(***************************************************************************)
parserVars == <<entry, input, file, entries, chunkSize, batchSize, hasOnBatch, pc,
                offset, leftover, batch, handed, parsedText, olmIndex, resultEmails,
                emailCount, retval, outcome, fatal, errorSeen, cancelRequested,
                addressBook, senderContactMap, contacts, progress, callArg, callResult,
          pendingEmails, arrays, calls, reads, scans>>

\* No parse is running.
ParserIdle ==
    /\ entry = "none"
    /\ input = [kind |-> "File", ext |-> "", large |-> FALSE, isZip |-> FALSE]
    /\ file = <<>>
    /\ entries = <<>>
    /\ addressBook = <<>>
    /\ callArg = <<>>
    /\ chunkSize = 1
    /\ batchSize = 1
    /\ hasOnBatch = FALSE
    /\ pc = "idle"
    /\ InitRun

InitDetect ==
    /\ ParserIdle
    /\ detPc = "call"
    /\ detResult = <<>>
    /\ \/ /\ detector = "AccountDetector.detect"
          /\ detEmails \in {Stamp(<<[date |-> 1, f |-> f]>>) : f \in AccountFeatures}
       \/ /\ detector = "AccountDetector.detectBatch"
          /\ detEmails \in EmailLists(AccountSamples, 1..MaxDate, MaxEmails)
       \/ /\ detector = "SubscriptionDetector.detectBatch"
          /\ detEmails \in EmailLists(SubscriptionSamples, 1..MaxDate, MaxEmails)
       \/ /\ detector = "NewsletterDetector.detectBatch"
          /\ detEmails \in EmailLists(NewsletterSamples, NewsDays, MaxEmails)
       \/ /\ detector = "PurchaseDetector.detect"
          /\ detEmails \in {Stamp(<<[date |-> 1, f |-> f]>>) : f \in PurchaseFeatures}

DetReturn(value) ==
    /\ detResult' = value
    /\ detPc' = "done"
    /\ UNCHANGED <<detector, detEmails>>
    /\ UNCHANGED parserVars

AccountDetectCall ==
    /\ detPc = "call"
    /\ detector = "AccountDetector.detect"
    /\ DetReturn(AccountDetect(detEmails[1]))

AccountDetectBatchCall ==
    /\ detPc = "call"
    /\ detector = "AccountDetector.detectBatch"
    /\ DetReturn(AccountDetectBatch(detEmails))

SubscriptionDetectBatchCall ==
    /\ detPc = "call"
    /\ detector = "SubscriptionDetector.detectBatch"
    /\ DetReturn(SubscriptionDetectBatch(detEmails))

NewsletterDetectBatchCall ==
    /\ detPc = "call"
    /\ detector = "NewsletterDetector.detectBatch"
    /\ DetReturn(NewsletterDetectBatch(detEmails))

PurchaseDetectCall ==
    /\ detPc = "call"
    /\ detector = "PurchaseDetector.detect"
    /\ DetReturn(PurchaseDetect(detEmails[1]))

NextDetect ==
    \/ AccountDetectCall
    \/ AccountDetectBatchCall
    \/ SubscriptionDetectBatchCall
    \/ NewsletterDetectBatchCall
    \/ PurchaseDetectCall

SpecDetect == InitDetect /\ [][NextDetect]_vars


(***************************************************************************)
(* Properties of the detectors.                                            *)
(***************************************************************************)
DetDone(name) == detPc = "done" /\ detector = name

MinDate(emails) == CHOOSE d \in {emails[i].date : i \in 1..Len(emails)} :
                      \A i \in 1..Len(emails) : d <= emails[i].date

MaxDateOf(emails) == CHOOSE d \in {emails[i].date : i \in 1..Len(emails)} :
                        \A i \in 1..Len(emails) : d >= emails[i].date

\* The emails of a list with a given date, in the order of the list.
OnDate(emails, d) == SelectSeq(emails, LAMBDA e : e.date = d)

\* The emails of the input that detect() takes for an account signup of the
\* service with the lower-cased name k, in input order.
AccountGroup(k) ==
    SelectSeq(detEmails, LAMBDA e : /\ AccountDetect(e).type = "account"
                                    /\ ToLowerCase(AccountDetect(e).serviceName) = k)

\* The emails of the input that detect() takes for a subscription email of
\* the service with the lower-cased name k, in input order.
SubscriptionGroup(k) ==
    SelectSeq(detEmails, LAMBDA e : /\ SubscriptionDetect(e).isSubscription
                                    /\ SubscriptionDetect(e).serviceName # ""
                                    /\ ToLowerCase(SubscriptionDetect(e).serviceName) = k)

\* The newsletter and promotional emails of the input from one sender.
NewsletterGroup(sender) ==
    SelectSeq(detEmails, LAMBDA e : /\ e.f.sender = sender
                                    /\ \/ NewsletterDetect(e).isNewsletter
                                       \/ NewsletterDetect(e).isPromotional)

\* C14: on ties emission order decides: among the qualifying emails of a
\* group that carry the same date, the account keeps the earliest-emitted as
\* its signup email, while the subscription and the newsletter take their
\* date-driven fields from the latest-emitted.
C14_TiesByEmissionOrder ==
    /\ DetDone("AccountDetector.detectBatch")
          => \A i \in 1..Len(detResult) :
                LET g == AccountGroup(ToLowerCase(detResult[i].serviceName))
                    tied == OnDate(g, MinDate(g))
                IN  detResult[i].signupEmailId = tied[1].id
    /\ DetDone("SubscriptionDetector.detectBatch")
          => \A i \in 1..Len(detResult) :
                LET g == SubscriptionGroup(ToLowerCase(detResult[i].serviceName))
                    tied == OnDate(g, MaxDateOf(g))
                IN  detResult[i].frequency = SubscriptionDetect(tied[Len(tied)]).frequency
    /\ DetDone("NewsletterDetector.detectBatch")
          => \A i \in 1..Len(detResult) :
                LET g == NewsletterGroup(detResult[i].senderEmail)
                    tied == OnDate(g, MaxDateOf(g))
                IN  detResult[i].isPromotional =
                        NewsletterDetect(tied[Len(tied)]).isPromotional

\* C15: each record of AccountDetector.detectBatch has the earliest date of
\* the qualifying emails of its service as signupDate, the id of an email
\* with that date as signupEmailId, and their number as emailCount; every
\* service with a qualifying email has a record.
C15_EarliestSignup ==
    DetDone("AccountDetector.detectBatch")
        => /\ \A i \in 1..Len(detResult) :
                LET g == AccountGroup(ToLowerCase(detResult[i].serviceName))
                IN  /\ g # <<>>
                    /\ detResult[i].signupDate = MinDate(g)
                    /\ \E k \in 1..Len(g) : /\ g[k].id = detResult[i].signupEmailId
                                            /\ g[k].date = MinDate(g)
                    /\ detResult[i].emailCount = Len(g)
           /\ \A k \in 1..Len(detEmails) :
                AccountDetect(detEmails[k]).type = "account"
                    => \E i \in 1..Len(detResult) :
                          ToLowerCase(detResult[i].serviceName)
                             = ToLowerCase(AccountDetect(detEmails[k]).serviceName)

C15_Witness ==
    /\ DetDone("AccountDetector.detectBatch")
    /\ \E i \in 1..Len(detResult) :
          /\ detResult[i].emailCount = 3
          /\ detResult[i].signupEmailId = 2
          /\ detResult[i].signupDate < detEmails[1].date

\* C16: the records of AccountDetector.detectBatch have pairwise distinct
\* lower-cased service names.
C16_DistinctServices ==
    DetDone("AccountDetector.detectBatch")
        => \A i, j \in 1..Len(detResult) :
              i # j => ToLowerCase(detResult[i].serviceName)
                          # ToLowerCase(detResult[j].serviceName)

C16_Witness ==
    /\ DetDone("AccountDetector.detectBatch")
    /\ \E a, b \in 1..Len(detEmails) :
          /\ AccountDetect(detEmails[a]).serviceName = "Netflix"
          /\ AccountDetect(detEmails[b]).serviceName = "netflix"
    /\ Len(detResult) = 2

\* The positions of a group at which the email is more recent than every
\* email before it (the first position included).
MoreRecentAt(g) ==
    {k \in 1..Len(g) : \A j \in 1..(k - 1) : g[j].date < g[k].date}

LastOf(S) == CHOOSE k \in S : \A j \in S : j <= k

\* C17: SubscriptionDetector.detectBatch returns one record per lower-cased
\* service name of the qualifying emails; emailIds lists the ids of all the
\* qualifying emails of the group in input order; lastRenewalDate is the
\* latest date of the group; frequency comes from the last email that was
\* more recent than all before it, and monthlyAmount from the last such
\* email with a positive amount.
C17_SubscriptionGrouping ==
    DetDone("SubscriptionDetector.detectBatch")
        => /\ \A i, j \in 1..Len(detResult) :
                i # j => ToLowerCase(detResult[i].serviceName)
                            # ToLowerCase(detResult[j].serviceName)
           /\ \A k \in 1..Len(detEmails) :
                (SubscriptionDetect(detEmails[k]).isSubscription
                   /\ SubscriptionDetect(detEmails[k]).serviceName # "")
                    => \E i \in 1..Len(detResult) :
                          ToLowerCase(detResult[i].serviceName)
                             = ToLowerCase(SubscriptionDetect(detEmails[k]).serviceName)
           /\ \A i \in 1..Len(detResult) :
                LET g == SubscriptionGroup(ToLowerCase(detResult[i].serviceName))
                    recent == MoreRecentAt(g)
                    paid == {k \in recent : SubscriptionDetect(g[k]).amount > 0}
                IN  /\ g # <<>>
                    /\ detResult[i].emailIds = [k \in 1..Len(g) |-> g[k].id]
                    /\ detResult[i].lastRenewalDate = MaxDateOf(g)
                    /\ detResult[i].frequency
                          = SubscriptionDetect(g[LastOf(recent)]).frequency
                    /\ detResult[i].monthlyAmount
                          = IF paid = {} THEN 0
                            ELSE SubscriptionDetect(g[LastOf(paid)]).amount

C17_Witness ==
    /\ DetDone("SubscriptionDetector.detectBatch")
    /\ \E i \in 1..Len(detResult) :
          LET g == SubscriptionGroup(ToLowerCase(detResult[i].serviceName))
          IN  /\ Len(detResult[i].emailIds) = 3
              /\ g[2].date > g[1].date
              /\ g[3].date < g[2].date
              /\ SubscriptionDetect(g[2]).amount = 0
              /\ SubscriptionDetect(g[1]).serviceName
                    # SubscriptionDetect(g[3]).serviceName
              /\ detResult[i].frequency # SubscriptionDetect(g[1]).frequency

\* The average inter-arrival time of a group, compared with a threshold in
\* days: the span between its earliest and its latest email over the number
\* of gaps.
AvgDaysAtMost(g, days) == MaxDateOf(g) - MinDate(g) <= days * (Len(g) - 1)

\* C18: NewsletterDetector.detectBatch returns exactly one record per sender
\* of the emails it takes for newsletter or promotional; emailCount is the
\* number of those emails of the sender, lastEmailDate their latest date,
\* and frequency follows from their average inter-arrival days (<= 2 daily,
\* <= 10 weekly, <= 45 monthly, else irregular), whatever the input order.
C18_NewsletterGrouping ==
    DetDone("NewsletterDetector.detectBatch")
        => /\ \A i, j \in 1..Len(detResult) :
                i # j => detResult[i].senderEmail # detResult[j].senderEmail
           /\ \A k \in 1..Len(detEmails) :
                (NewsletterDetect(detEmails[k]).isNewsletter
                   \/ NewsletterDetect(detEmails[k]).isPromotional)
                    => \E i \in 1..Len(detResult) :
                          detResult[i].senderEmail = detEmails[k].f.sender
           /\ \A i \in 1..Len(detResult) :
                LET g == NewsletterGroup(detResult[i].senderEmail)
                IN  /\ g # <<>>
                    /\ detResult[i].emailCount = Len(g)
                    /\ detResult[i].lastEmailDate = MaxDateOf(g)
                    /\ detResult[i].frequency
                          = IF Len(g) < 2 THEN "irregular"
                            ELSE IF AvgDaysAtMost(g, 2) THEN "daily"
                            ELSE IF AvgDaysAtMost(g, 10) THEN "weekly"
                            ELSE IF AvgDaysAtMost(g, 45) THEN "monthly"
                            ELSE "irregular"

C18_Witness ==
    /\ DetDone("NewsletterDetector.detectBatch")
    /\ Len(detResult) = 2
    /\ \E i \in 1..Len(detResult) :
          LET g == NewsletterGroup(detResult[i].senderEmail)
          IN  /\ detResult[i].emailCount = 2
              /\ g[1].date < g[2].date
              /\ detResult[i].frequency = "weekly"

\* C19: PurchaseDetector.detect returns a purchase exactly when the score is
\* at least 70, the amount is positive and the merchant is not empty, and
\* fewer than 3 anti-patterns match; with 3 or more anti-pattern matches it
\* returns type none with confidence 0 whatever the other signals.
C19_PurchaseEmission ==
    DetDone("PurchaseDetector.detect")
        => LET f == detEmails[1].f
               emits == /\ PurchaseScore(f) >= 70
                        /\ PurchaseAmount(f) > 0
                        /\ PurchaseMerchant(f) # ""
           IN  /\ f.antiPatternMatches < 3
                    => (detResult.type = "purchase" <=> emits)
               /\ f.antiPatternMatches >= 3
                    => detResult.type = "none" /\ detResult.confidence = 0
               /\ detResult.type = "purchase"
                    => /\ detResult.confidence >= 70
                       /\ detResult.amount > 0
                       /\ detResult.merchant # ""

C19_Witness ==
    /\ DetDone("PurchaseDetector.detect")
    /\ detEmails[1].f.antiPatternMatches >= 3
    /\ PurchaseScore(detEmails[1].f) >= 70
    /\ PurchaseAmount(detEmails[1].f) > 0
    /\ PurchaseMerchant(detEmails[1].f) # ""
    /\ detResult.type = "none"

\* C20: the confidence AccountDetector.detect returns lies in 0..100, and a
\* result of type none has confidence 0.
C20_ConfidenceRange ==
    DetDone("AccountDetector.detect")
        => /\ detResult.confidence \in 0..100
           /\ detResult.type = "none" => detResult.confidence = 0


(***************************************************************************)
(* OLMParser.parse on archives whose emails come from several senders on   *)
(* several dates and that may hold a contact file.                         *)
(***************************************************************************)
ContactEntries ==
    UNION {{es \in [1..n -> [n : 1..MaxEntries, kind : {"sender", "empty"},
                             from : {"Ann@X.com", "Bob@X.com", UnknownSender},
                             date : 1..MaxDate]] :
               \A i \in 1..n : es[i].n = i} : n \in 0..MaxEntries}

AddressBooks ==
    { <<>>,
      << [readable |-> TRUE, elements |-> << [name |-> "Ann", email |-> "Ann@X.com"] >>] >>,
      << [readable |-> FALSE, elements |-> << [name |-> "Ann", email |-> "Ann@X.com"] >>] >>,
      << [readable |-> TRUE, elements |-> << [name |-> "Carl", email |-> ""],
                                             [name |-> "", email |-> ""] >>] >> }

InitContacts ==
    /\ file = <<>>
    /\ entries \in ContactEntries
    /\ addressBook \in AddressBooks
    /\ callArg = <<>>
    /\ entry = "OLMParser.parse"
    /\ pc = "olm_load"
    /\ input = [kind |-> "File", ext |-> "olm", large |-> FALSE, isZip |-> TRUE]
    /\ chunkSize = 1
    /\ batchSize = 1
    /\ hasOnBatch = FALSE
    /\ InitRun
    /\ DetIdle

NextContacts ==
    \/ OlmLoadZip
    \/ OlmParseEmail
    \/ OlmFinish

SpecContacts == InitContacts /\ [][NextContacts]_vars

OlmDone == entry = "OLMParser.parse" /\ pc = "done" /\ outcome = "returned"

\* The addresses that send an email of the result, the placeholder aside.
SenderAddresses ==
    {resultEmails[i].sender : i \in 1..Len(resultEmails)} \ {"", UnknownSender}

EmailsFrom(a) == SelectSeq(resultEmails, LAMBDA e : e.sender = a)

LatestDate(emails) == CHOOSE d \in {emails[i].date : i \in 1..Len(emails)} :
                         \A i \in 1..Len(emails) : d >= emails[i].date

\* The addresses of the contacts that the readable contact files hold.
AddressBookEmails ==
    UNION {{ToLowerCase(cleanEmailAddress(addressBook[i].elements[k].email)) :
               k \in 1..Len(addressBook[i].elements)} :
           i \in {j \in 1..Len(addressBook) : addressBook[j].readable}} \ {""}

\* The contacts of the result that carry the tally of a sender.
TallyContacts(a) ==
    {i \in 1..Len(contacts) : contacts[i].email = a /\ contacts[i].emailCount > 0}

ProgressStages == {"extracting", "parsing_emails", "parsing_contacts", "parsing_calendar",
                   "detecting", "complete"}

RawLabels ==
    { <<"Inbox">>, <<"Sent Mail">>, <<"Draft">>, <<"Spam">>, <<"Trash">>, <<"Unread">>,
      <<"Starred">>, <<"Category Promotions">>, <<"Work Stuff">>, <<"Unread Later">>,
      <<"Opened!">>, <<QUOTE, "Work", COMMA, "Play", QUOTE>>, <<" ", "Inbox">>, <<>> }

LabelHeaders ==
    {JoinWith(ls, <<COMMA>>) : ls \in UNION {[1..n -> RawLabels] : n \in 0..MaxLabels}}

LabelledMessage(h) ==
    JoinWith(<<FromValid, <<"X-Gmail-Labels:">> \o h, <<>>, BodyLine>>, <<NL>>)

InitLabels ==
    /\ file \in {LabelledMessage(h) : h \in LabelHeaders}
    /\ entries = <<>>
    /\ addressBook = <<>>
    /\ callArg = <<>>
    /\ \/ /\ entry = "MBOXParser.parse"
          /\ input \in {[kind |-> "File", ext |-> "mbox", large |-> FALSE, isZip |-> FALSE],
                        [kind |-> "Buffer", ext |-> "", large |-> FALSE, isZip |-> FALSE]}
          /\ pc = "mbox_parse"
       \/ /\ entry = "parseArchive"
          /\ input = [kind |-> "File", ext |-> "mbox", large |-> FALSE, isZip |-> FALSE]
          /\ pc = "call"
    /\ chunkSize = 1
    /\ batchSize = 1
    /\ hasOnBatch = FALSE
    /\ InitRun
    /\ DetIdle

NextLabels ==
    \/ ParseArchive
    \/ MBOXParseSmall
    \/ MBOXParseReadError

SpecLabels == InitLabels /\ [][NextLabels]_vars

\* The value of the X-Gmail-Labels header of the first message of the file.
LabelsHeaderOfFile ==
    GetHeader(HeaderLoop(SplitLines(NormalizeLineEndings(file)), 2, <<>>).headers,
              "x-gmail-labels")

LabelSet == Range(parseGmailLabels(LabelsHeaderOfFile))

\* C23: isRead holds exactly when the parsed label list lacks the label
\* 'unread', and isStarred exactly when it has the label 'starred'.
C23_FlagsByWholeLabel ==
    (MboxResultDone /\ Len(resultEmails) = 1)
        => /\ resultEmails[1].isRead = (<<"unread">> \notin LabelSet)
           /\ resultEmails[1].isStarred = (<<"starred">> \in LabelSet)

\* The labels of the list that are neither system labels nor categories, in
\* the order of the header.
CustomLabelsOfFile ==
    SelectSeq(parseGmailLabels(LabelsHeaderOfFile),
              LAMBDA l : ~IsCategory(l) /\ l \notin SystemLabels)

\* C25: the folderId of an MBOX email follows the fixed priority inbox,
\* sent, drafts, spam, trash over the set of its labels, whatever their
\* order, then the first custom label kebab-cased, then archive.
C25_FolderByPriority ==
    (MboxResultDone /\ Len(resultEmails) = 1)
        => resultEmails[1].folderId =
              IF <<"inbox">> \in LabelSet THEN <<"inbox">>
              ELSE IF LabelSet \cap {<<"sent">>, <<"sent mail">>} # {} THEN <<"sent">>
              ELSE IF LabelSet \cap {<<"draft">>, <<"drafts">>} # {} THEN <<"drafts">>
              ELSE IF <<"spam">> \in LabelSet THEN <<"spam">>
              ELSE IF <<"trash">> \in LabelSet THEN <<"trash">>
              ELSE IF CustomLabelsOfFile # <<>>
                   THEN labelToFolderId(CustomLabelsOfFile[1])
              ELSE <<"archive">>

C25_Witness ==
    /\ MboxResultDone
    /\ Len(resultEmails) = 1
    /\ parseGmailLabels(LabelsHeaderOfFile) = << <<"trash">>, <<"work stuff">>, <<"draft">> >>
    /\ resultEmails[1].folderId = <<"drafts">>


(***************************************************************************)
(* The host calls a utility function: MBOXParser.getAllFolderIdsFromLabels *)
(* on a labels header, normalizeSubject on a subject, the header loop of   *)
(* MBOXParser.parseEmailFromLines on the lines of a message, or            *)
(* MBOXParser.parseMimeParts on a multipart body.                          *)
(***************************************************************************)
SubjectSymbols == {"Re:", "FWD:", "AW:", " ", "Hello"}

Subjects == UNION {[1..n -> SubjectSymbols] : n \in 0..MaxSubject}

\* The parts of a multipart message: a leaf has a content type and a content,
\* a nested multipart has leaves; the body is the message a mail program
\* writes for them.
PartContents == {<<>>, <<"A">>, <<"B">>}

LeafParts == [header : {TextPlainHeader, TextHtmlHeader}, content : PartContents]

NestedParts ==
    {[header |-> NestedHeader, parts |-> ps] :
        ps \in UNION {[1..n -> LeafParts] : n \in 1..MaxNested}}

PartLists == UNION {[1..n -> LeafParts \cup NestedParts] : n \in 0..MaxParts}

RECURSIVE RenderParts(_, _)
RenderParts(ps, boundary) ==
    IF ps = <<>> THEN <<BoundaryMarker(boundary), "--", NL>>
    ELSE <<BoundaryMarker(boundary), NL, ps[1].header, NL, NL>>
         \o (IF ps[1].header = NestedHeader THEN RenderParts(ps[1].parts, "b2")
             ELSE ps[1].content \o <<NL>>)
         \o RenderParts(Tail(ps), boundary)

MultipartMessages ==
    {[tree |-> ps, body |-> RenderParts(ps, "b1"), boundary |-> "b1"] : ps \in PartLists}

\* The lines of one message: the separator line, then header lines,
\* continuation lines and empty lines.
HeaderBlockLines == {<<"Subject:", "A">>, <<"SUBJECT:", " ", "B">>, <<"From:", "Ann@X.com">>,
                     <<" ", "more">>, <<>>}

HeaderBlocks ==
    {<<FromValid>> \o ls : ls \in UNION {[1..n -> HeaderBlockLines] : n \in 0..MaxHeaderLines}}

InitUtil ==
    /\ file = <<>>
    /\ entries = <<>>
    /\ addressBook = <<>>
    /\ input = [kind |-> "File", ext |-> "", large |-> FALSE, isZip |-> FALSE]
    /\ chunkSize = 1
    /\ batchSize = 1
    /\ hasOnBatch = FALSE
    /\ pc = "util_call"
    /\ \/ /\ entry = "MBOXParser.getAllFolderIdsFromLabels"
          /\ callArg \in LabelHeaders
       \/ /\ entry = "normalizeSubject"
          /\ callArg \in Subjects
       \/ /\ entry = "MBOXParser.parseEmailFromLines"
          /\ callArg \in HeaderBlocks
       \/ /\ entry = "MBOXParser.parseMimeParts"
          /\ callArg \in MultipartMessages
    /\ InitRun
    /\ DetIdle

UtilReturn(value) ==
    /\ callResult' = value
    /\ pc' = "done"
    /\ outcome' = "returned"
    /\ UNCHANGED <<detVars, olmVars, streamVars, progress, callArg>>
    /\ UNCHANGED <<entry, input, file, entries, chunkSize, batchSize, hasOnBatch, offset,
                   leftover, batch, handed, parsedText, olmIndex, resultEmails,
                   emailCount, retval, fatal, errorSeen, cancelRequested>>

GetAllFolderIdsCall ==
    /\ pc = "util_call"
    /\ entry = "MBOXParser.getAllFolderIdsFromLabels"
    /\ UtilReturn(getAllFolderIdsFromLabels(callArg))

NormalizeSubjectCall ==
    /\ pc = "util_call"
    /\ entry = "normalizeSubject"
    /\ UtilReturn(normalizeSubject(callArg))

\* The header loop of parseEmailFromLines on the lines of one message.
ParseHeadersCall ==
    /\ pc = "util_call"
    /\ entry = "MBOXParser.parseEmailFromLines"
    /\ UtilReturn(HeaderLoop(callArg, 2, <<>>))

ParseMimePartsCall ==
    /\ pc = "util_call"
    /\ entry = "MBOXParser.parseMimeParts"
    /\ UtilReturn(parseMimeParts(callArg.body, callArg.boundary))

NextUtil ==
    \/ GetAllFolderIdsCall
    \/ NormalizeSubjectCall
    \/ ParseHeadersCall
    \/ ParseMimePartsCall

SpecUtil == InitUtil /\ [][NextUtil]_vars

UtilDone(name) == entry = name /\ pc = "done"

\* The ids of the predefined folders.
PredefinedFolders == {<<"inbox">>, <<"sent">>, <<"drafts">>, <<"spam">>, <<"trash">>,
                      <<"archive">>}

\* C24: getAllFolderIdsFromLabels(H) holds only predefined folder ids and
\* kebab-cased custom labels, no id of a system label, and applying it to
\* its own output, joined as a labels header, returns the same ids.
C24_FolderIdsIdempotent ==
    UtilDone("MBOXParser.getAllFolderIdsFromLabels")
        => /\ \A i \in 1..Len(callResult) :
                /\ callResult[i] \notin SystemLabels
                /\ \/ callResult[i] \in PredefinedFolders
                   \/ \E k \in 1..Len(parseGmailLabels(callArg)) :
                         callResult[i] = labelToFolderId(parseGmailLabels(callArg)[k])
           /\ getAllFolderIdsFromLabels(JoinWith(callResult, <<COMMA>>)) = callResult

\* C26: normalizeSubject(normalizeSubject(s)) = normalizeSubject(s) and
\* normalizeSubject("Re: " + s) = normalizeSubject(s) for every subject s.
C26_NormalizeSubjectStable ==
    UtilDone("normalizeSubject")
        => /\ normalizeSubject(callResult) = callResult
           /\ normalizeSubject(<<"Re:", " ">> \o callArg) = callResult


(***************************************************************************)
(* MBOXParser.parseStreaming step by step: one action for each stretch of  *)
(* code between two awaits (chunk.text() and onBatch).  The array passed   *)
(* to onBatch is an object shared with the host: arrays holds the content  *)
(* of every array the parser created, a call keeps the index of the array  *)
(* it received and the content that array had when it was handed over.     *)
(***************************************************************************)
InitAwait ==
    /\ file \in FilesOf(StreamLines, MaxStreamLines)
    /\ entries = <<>>
    /\ addressBook = <<>>
    /\ callArg = <<>>
    /\ input = [kind |-> "File", ext |-> "mbox", large |-> TRUE, isZip |-> FALSE]
    /\ entry = "MBOXParser.parseStreaming"
    /\ hasOnBatch \in BOOLEAN
    /\ pc = "s_loop"
    /\ chunkSize \in 1..MaxChunk
    /\ batchSize \in 1..MaxBatch
    /\ InitRun
    /\ DetIdle

\* What no step of parseStreaming changes.
StreamFrame ==
    UNCHANGED <<detVars, callVars, olmVars, entry, input, file, entries, chunkSize,
                batchSize, hasOnBatch, olmIndex, resultEmails, emailCount, errorSeen,
                cancelRequested>>

\* const chunkEnd = Math.min(offset + this.CHUNK_SIZE, fileSize)
ChunkEnd == Min(offset + chunkSize, Len(file))

\* currentBatch.push(email)
PushRecord(arrs, email) == [arrs EXCEPT ![Len(arrs)] = Append(@, email)]

\* A variant that empties the array in place (currentBatch.length = 0).
NewBatchArray_ClearInPlace(arrs) == [arrs EXCEPT ![Len(arrs)] = <<>>]

\* currentBatch = []
NewBatchArray(arrs) == Append(arrs, <<>>)

\* onBatch(currentBatch, batchNumber) is invoked and not yet settled.
PendingCall(arrs, number) ==
    [ref |-> Len(arrs), emails |-> arrs[Len(arrs)], batchNumber |-> number,
     state |-> "pending"]

SettleLast(cs, state) == [cs EXCEPT ![Len(cs)].state = state]

\* A variant of the return that reports no complete event.
StreamCompleted_Silent(total) ==
    /\ progress' = StreamStarted(progress)
    /\ retval' = total
    /\ outcome' = "returned"
    /\ pc' = "done"

\* reportProgress('complete', 100); return totalEmailsParsed
StreamCompleted(total) ==
    /\ progress' = reportProgress(StreamStarted(progress), "complete", 100, 1)
    /\ retval' = total
    /\ outcome' = "returned"
    /\ pc' = "done"

\* The code after the chunk loop, up to the final onBatch call or the return.
StreamAfterLoop ==
    LET finalEmails == IF IsBlank(leftover) THEN <<>> ELSE parseEmailsFromText(leftover)
        filled == [arrays EXCEPT ![Len(arrays)] = @ \o finalEmails]
        current == filled[Len(filled)]
    IN  /\ arrays' = filled
        /\ handed' = IF IsBlank(leftover) THEN handed ELSE handed \o BlocksOfText(leftover)
        /\ parsedText' = IF IsBlank(leftover) THEN parsedText ELSE parsedText \o leftover
        /\ IF current # <<>> /\ hasOnBatch
           THEN /\ calls' = Append(calls, PendingCall(filled, batch.batchNumber))
                /\ batch' = [batch EXCEPT !.currentBatch = current,
                                          !.delivered = Append(@, [emails |-> current,
                                                    batchNumber |-> batch.batchNumber])]
                /\ progress' = StreamStarted(progress)
                /\ pc' = "s_await_final"
                /\ UNCHANGED <<retval, outcome>>
           ELSE /\ calls' = calls
                /\ batch' = [batch EXCEPT !.currentBatch = current]
                /\ StreamCompleted(batch.totalEmailsParsed)
        /\ UNCHANGED <<offset, leftover, pendingEmails, scans>>

\* await chunk.text() fulfils: the text is split and parsed into its records.
AwaitChunkText ==
    /\ pc = "s_loop"
    /\ offset < Len(file)
    /\ LET chunkText == Substring(file, offset, ChunkEnd)
           sp == SplitProcessable(leftover \o chunkText, ChunkEnd >= Len(file))
       IN  /\ reads' = Append(reads, [from |-> offset, to |-> ChunkEnd, ok |-> TRUE])
           /\ scans' = Append(scans, FindFromScan(leftover \o chunkText,
                                                  Len(leftover \o chunkText) - 1))
           /\ leftover' = sp.leftover
           /\ pendingEmails' = parseEmailsFromText(sp.processableText)
           /\ handed' = handed \o BlocksOfText(sp.processableText)
           /\ parsedText' = parsedText \o sp.processableText
    /\ progress' = StreamStarted(progress)
    /\ pc' = "s_push"
    /\ UNCHANGED <<offset, batch, arrays, calls, retval, outcome, fatal>>
    /\ StreamFrame

\* await chunk.text() rejects: break, then the code after the loop.
AwaitChunkTextRejected ==
    /\ pc = "s_loop"
    /\ offset < Len(file)
    /\ reads' = Append(reads, [from |-> offset, to |-> ChunkEnd, ok |-> FALSE])
    /\ fatal' = "read"
    /\ StreamAfterLoop
    /\ StreamFrame

\* while (offset < fileSize) is false: the code after the loop.
StreamLoopExit ==
    /\ pc = "s_loop"
    /\ offset >= Len(file)
    /\ StreamAfterLoop
    /\ UNCHANGED <<reads, fatal>>
    /\ StreamFrame

\* One pass of for (const email of chunkEmails), up to the await of onBatch.
StreamPush ==
    /\ pc = "s_push"
    /\ pendingEmails # <<>>
    /\ pendingEmails' = Tail(pendingEmails)
    /\ LET pushed == PushRecord(arrays, Head(pendingEmails))
           current == pushed[Len(pushed)]
       IN  IF Len(current) >= batchSize
           THEN IF hasOnBatch
                THEN /\ arrays' = pushed
                     /\ calls' = Append(calls, PendingCall(pushed, batch.batchNumber))
                     /\ batch' = [batch EXCEPT !.currentBatch = current,
                                     !.delivered = Append(@, [emails |-> current,
                                                    batchNumber |-> batch.batchNumber])]
                     /\ pc' = "s_await"
                ELSE /\ arrays' = NewBatchArray(pushed)
                     /\ calls' = calls
                     /\ batch' = [batch EXCEPT !.currentBatch = <<>>,
                                               !.batchNumber = @ + 1,
                                               !.totalEmailsParsed = @ + Len(current)]
                     /\ pc' = pc
           ELSE /\ arrays' = pushed
                /\ calls' = calls
                /\ batch' = [batch EXCEPT !.currentBatch = current]
                /\ pc' = pc
    /\ UNCHANGED <<offset, leftover, handed, parsedText, retval, outcome, fatal, progress,
                   reads, scans>>
    /\ StreamFrame

\* The records of the chunk are pushed: offset = chunkEnd, the progress event.
StreamChunkDone ==
    /\ pc = "s_push"
    /\ pendingEmails = <<>>
    /\ offset' = ChunkEnd
    /\ progress' = reportProgress(StreamStarted(progress), "parsing_emails",
                                  StreamProgress(ChunkEnd, Len(file)), 1)
    /\ pc' = "s_loop"
    /\ UNCHANGED <<leftover, batch, handed, parsedText, retval, outcome, fatal,
                   pendingEmails, arrays, calls, reads, scans>>
    /\ StreamFrame

\* await onBatch(...) fulfils inside the loop: count, number, a new array.
OnBatchFulfilled ==
    /\ pc = "s_await"
    /\ calls' = SettleLast(calls, "fulfilled")
    /\ batch' = [batch EXCEPT !.currentBatch = <<>>,
                              !.batchNumber = @ + 1,
                              !.totalEmailsParsed = @ + Len(arrays[Len(arrays)])]
    /\ arrays' = NewBatchArray(arrays)
    /\ pc' = "s_push"
    /\ UNCHANGED <<offset, leftover, handed, parsedText, retval, outcome, fatal, progress,
                   pendingEmails, reads, scans>>
    /\ StreamFrame

\* await onBatch(...) fulfils for the final batch: count, complete, return.
OnFinalBatchFulfilled ==
    /\ pc = "s_await_final"
    /\ calls' = SettleLast(calls, "fulfilled")
    /\ batch' = [batch EXCEPT !.totalEmailsParsed = @ + Len(arrays[Len(arrays)])]
    /\ StreamCompleted(batch.totalEmailsParsed + Len(arrays[Len(arrays)]))
    /\ UNCHANGED <<offset, leftover, handed, parsedText, fatal, pendingEmails, arrays,
                   reads, scans>>
    /\ StreamFrame

\* await onBatch(...) rejects: parseStreaming rejects with the same reason.
OnBatchRejected ==
    /\ pc \in {"s_await", "s_await_final"}
    /\ calls' = SettleLast(calls, "rejected")
    /\ fatal' = "onBatch"
    /\ outcome' = "thrown"
    /\ pc' = "done"
    /\ UNCHANGED <<offset, leftover, batch, handed, parsedText, retval, progress,
                   pendingEmails, arrays, reads, scans>>
    /\ StreamFrame

NextAwait ==
    \/ AwaitChunkText
    \/ AwaitChunkTextRejected
    \/ StreamLoopExit
    \/ StreamPush
    \/ StreamChunkDone
    \/ OnBatchFulfilled
    \/ OnFinalBatchFulfilled
    \/ OnBatchRejected

SpecAwait == InitAwait /\ [][NextAwait]_vars

\* parseStreaming waits for the onBatch call it made last.
AwaitingOnBatch == pc \in {"s_await", "s_await_final"}

\* C27: parseStreaming delivers batches one at a time and in order: while an
\* onBatch call is pending no record is appended, no chunk is read and no
\* other onBatch call is made; the batch numbers are 0, 1, 2, ...; and an
\* array handed to onBatch keeps the content it was handed over with.
C27_BatchesOneAtATime ==
    /\ \A i \in 1..Len(calls) :
          /\ calls[i].batchNumber = i - 1
          /\ arrays[calls[i].ref] = calls[i].emails
          /\ calls[i].state = "pending" => i = Len(calls) /\ AwaitingOnBatch
          /\ \A j \in 1..Len(calls) : i # j => calls[i].ref # calls[j].ref
    /\ AwaitingOnBatch =>
          /\ calls # <<>> /\ calls[Len(calls)].state = "pending"
          /\ ~ENABLED StreamPush
          /\ ~ENABLED AwaitChunkText
          /\ ~ENABLED StreamChunkDone

C27_Witness ==
    /\ pc = "done"
    /\ outcome = "returned"
    /\ Len(calls) >= 3
    /\ Len(reads) >= 2
    /\ \A i \in 1..Len(calls) : calls[i].state = "fulfilled"

(***************************************************************************)
(* parseStreaming when every promise it awaits settles and the code after  *)
(* a settled await is run.  The three conditions are stated over the       *)
(* position of the run: by NextAwait, a step that leaves the while test    *)
(* with bytes left is AwaitChunkText or AwaitChunkTextRejected, a step     *)
(* that leaves an await of onBatch is OnBatchFulfilled,                    *)
(* OnFinalBatchFulfilled or OnBatchRejected, and the remaining steps are   *)
(* StreamLoopExit, StreamPush and StreamChunkDone.                         *)
(***************************************************************************)
\* await chunk.text() settles, fulfilled or rejected.
ChunkTextSettles ==
    /\ pc = "s_loop"
    /\ offset < Len(file)
    /\ pc' \in {"s_push", "s_await_final", "done"}

\* await onBatch(...) settles, fulfilled or rejected.
OnBatchSettles ==
    /\ AwaitingOnBatch
    /\ pc' \in {"s_push", "done"}

\* The synchronous code runs on: the loop exit, a push, the end of a chunk.
StreamContinues ==
    \/ /\ pc = "s_loop"
       /\ offset >= Len(file)
       /\ pc' \in {"s_await_final", "done"}
       /\ pendingEmails' = pendingEmails
    \/ /\ pc = "s_push"
       /\ pendingEmails # <<>>
       /\ pc' \in {"s_push", "s_await"}
       /\ pendingEmails' = Tail(pendingEmails)
    \/ /\ pc = "s_push"
       /\ pendingEmails = <<>>
       /\ pc' = "s_loop"
       /\ pendingEmails' = pendingEmails

SpecAwaitFair ==
    /\ InitAwait
    /\ [][NextAwait]_vars
    /\ WF_pc(ChunkTextSettles)
    /\ WF_pc(OnBatchSettles)
    /\ WF_<<pc, pendingEmails>>(StreamContinues)

CompleteEvents == {i \in 1..Len(progress) : progress[i].stage = "complete"}

\* The byte ranges asked for are non-empty, start at 0 and follow one another.
ReadsInOrder ==
    \A i \in 1..Len(reads) :
        /\ reads[i].from < reads[i].to
        /\ reads[i].from = (IF i = 1 THEN 0 ELSE reads[i - 1].to)
        /\ reads[i].to <= Len(file)
        /\ ~reads[i].ok => i = Len(reads)

\* Every reverse scan visits strictly decreasing search positions.
ScansDecrease ==
    \A c \in 1..Len(scans) : \A i \in 1..(Len(scans[c]) - 1) :
        scans[c][i + 1] < scans[c][i]

\* What the history of a run shows at any point: the ranges read, the
\* reverse scans, and the complete event.
StreamLoopSafety ==
    /\ ReadsInOrder
    /\ ScansDecrease
    /\ IF reads = <<>> THEN offset = 0
       ELSE /\ offset \in {reads[Len(reads)].from, reads[Len(reads)].to}
            /\ ~reads[Len(reads)].ok => offset = reads[Len(reads)].from
            /\ (pc = "s_loop" /\ reads[Len(reads)].ok) => offset = reads[Len(reads)].to
    /\ Cardinality(CompleteEvents) <= 1
    /\ CompleteEvents # {} =>
          /\ CompleteEvents = {Len(progress)}
          /\ pc = "done"
          /\ \A i \in 1..Len(calls) : calls[i].state = "fulfilled"

\* parseStreaming has ended after a loop that read every byte range once.
StreamTerminated ==
    /\ pc = "done"
    /\ StreamLoopSafety
    /\ fatal = "none" =>
          /\ offset = Len(file)
          /\ file # <<>> => reads[Len(reads)].to = Len(file)

\* C28: for every finite file, when each chunk read and each onBatch call
\* settles, parseStreaming terminates: offset strictly increases on every
\* loop iteration up to the file size, each byte range is read exactly
\* once, the reverse scan of findLastFromLine strictly decreases, and
\* exactly one complete event is reported, after every batch delivery and
\* as the last event.
C28_TerminatesWithComplete ==
    <>(StreamTerminated /\ CompleteEvents = {Len(progress)})

\* C28, amended: the same, with the complete event reported exactly once
\* when parseStreaming returns and not at all when an onBatch call rejects.
C28_TerminatesCompleteOnReturn ==
    <>(/\ StreamTerminated
       /\ outcome = "returned" => CompleteEvents = {Len(progress)}
       /\ outcome = "thrown" =>
             /\ CompleteEvents = {}
             /\ calls[Len(calls)].state = "rejected")

C28_Witness ==
    /\ pc = "done"
    /\ outcome = "returned"
    /\ Len(reads) >= 2
    /\ \E c \in 1..Len(scans) : Len(scans[c]) >= 2
    /\ calls # <<>>
    /\ CompleteEvents = {Len(progress)}

\* The headers of a message when a continuation line goes to the header
\* line nearest above it: last is the key of that line, "" before any.
RECURSIVE HeadersByPrecedingLine(_, _, _, _)
HeadersByPrecedingLine(lines, i, hs, last) ==
    IF i > Len(lines) \/ IsBlank(lines[i]) THEN hs
    ELSE LET line == lines[i]
         IN  IF Head(line) \in Whitespace
             THEN HeadersByPrecedingLine(lines, i + 1,
                     [k \in 1..Len(hs) |->
                         IF hs[k].key = last
                         THEN [key |-> last, value |-> hs[k].value \o <<" ">> \o Trim(line)]
                         ELSE hs[k]],
                     last)
             ELSE HeadersByPrecedingLine(lines, i + 1,
                     SetHeader(hs, HeaderKey(Head(line)), TrimLeft(Tail(line))),
                     HeaderKey(Head(line)))

\* The index of the first empty line of the message, or its length.
FirstEmptyLine(lines) ==
    LET empty == {i \in 2..Len(lines) : IsBlank(lines[i])}
    IN  IF empty = {} THEN Len(lines) ELSE CHOOSE i \in empty : \A j \in empty : i <= j

\* C29: the header loop reads the lines up to the first empty line, folds
\* the case of header names, lets the last value of a repeated name win,
\* and appends a continuation line, after a single space, to the header
\* that immediately precedes it in the message.
C29_ContinuationToPrecedingHeader ==
    UtilDone("MBOXParser.parseEmailFromLines")
        => /\ callResult.bodyStartIndex = FirstEmptyLine(callArg)
           /\ Range(callResult.headers)
                 = Range(HeadersByPrecedingLine(callArg, 2, <<>>, ""))

\* The leaves of a part tree in depth-first order.
RECURSIVE LeavesDepthFirst(_)
LeavesDepthFirst(ps) ==
    IF ps = <<>> THEN <<>>
    ELSE (IF ps[1].header = NestedHeader THEN ps[1].parts ELSE <<ps[1]>>)
         \o LeavesDepthFirst(Tail(ps))

\* The content of the first leaf with the content type, Undefined without one.
FirstContent(leaves, header) ==
    LET hits == {i \in 1..Len(leaves) : leaves[i].header = header}
    IN  IF hits = {} THEN Undefined
        ELSE leaves[CHOOSE i \in hits : \A j \in hits : i <= j].content

\* C30: in a multipart message the text comes from the first text/plain
\* part and the html from the first text/html part of a depth-first
\* traversal of the part tree; a later part of the same type never
\* overwrites an earlier one.
C30_FirstPartWins ==
    UtilDone("MBOXParser.parseMimeParts")
        => /\ callResult.text = FirstContent(LeavesDepthFirst(callArg.tree), TextPlainHeader)
           /\ callResult.html = FirstContent(LeavesDepthFirst(callArg.tree), TextHtmlHeader)

=============================================================================
